---- MODULE Spec2Model ----
(***************************************************************************)
(* Vaughan wallet, dApp gateway: the approval queue (dapp/approval.rs),    *)
(* the session manager (dapp/session.rs), the window registry              *)
(* (dapp/window_registry.rs), the rate limiter (dapp/rate_limiter.rs) and  *)
(* the request router (commands/dapp.rs, dapp/rpc_handler.rs,              *)
(* commands/window.rs).                                                    *)
(*                                                                         *)
(* Every lock of the program is a tokio Mutex/RwLock that is taken at the  *)
(* top of one method and released when the method returns, so one method   *)
(* call on one component is one atomic step; a command that calls several  *)
(* methods (dapp_request, close_dapp, the rpc handlers) is a task whose    *)
(* position is part of the state, and other tasks run between its calls.   *)
(* Time is the wall clock in whole seconds.                                *)
(***************************************************************************)
EXTENDS Integers, Sequences, FiniteSets, TLC

VARIABLES
    now,        \* the clock (Instant::now / SystemTime::now), seconds
    pending,    \* ApprovalQueue.pending: ApprovalId -> PendingApproval
    uuid,       \* number of ids drawn from uuid::Uuid::new_v4 so far
    chan,       \* the oneshot channels made by add_request, by id
    last,       \* the most recent call on the queue and what it returned
    sessions,   \* SessionManager.sessions: (window_label, origin) -> DappConnection
    windows,    \* WindowRegistry.windows: window_label -> WindowInfo
    buckets,    \* RateLimiter.buckets: key -> MultiTierBucket
    processed,  \* PROCESSED_REQUESTS.requests: set of request ids
    tasks,      \* the dapp_request calls made so far, each with its position
    closing     \* the close_dapp calls: window_label -> position

queueVars == <<pending, uuid, chan, last>>
gateVars == <<sessions, windows, buckets, processed, tasks, closing>>
vars == <<now, pending, uuid, chan, last,
          sessions, windows, buckets, processed, tasks, closing>>

----------------------------------------------------------------------------
(* Bounds of the model *)

\* fresh approval ids available in the queue specification
MaxIds == 2
\* fresh approval ids available in the queue-limit specification
MaxBoundIds == 11
\* the clock stops here
MaxNow == 301
\* dapp_request calls made in the gateway specification
MaxTasks == 3
\* dapp_request calls made in the signing specification
MaxSignTasks == 2
\* dapp_request calls made in the window-close specification
MaxCloseTasks == 2
\* dapp_request calls made in the liveness specification
MaxLiveTasks == 2
\* requests made, over all transports, in the transport specification
MaxTransportTasks == 2
\* dapp_request calls made in the authorization specification
MaxAuthTasks == 3
\* the clock of the rate-limiter specification stops here (seconds)
MaxRateNow == 10
\* check_limit calls made on a bucket in the rate-limiter specification
MaxChecks == 51
\* the calls of these that may have time pass before them
MaxSpacedChecks == 12
\* the longest time let pass after a burst in the refill specification (seconds)
MaxWait == 13
\* the clock of the two-key rate-limiter specification stops here (seconds)
MaxKeyNow == 1
\* check_limit calls made for one key in the two-key specification
MaxKeyChecks == 11
\* mark_processed calls made in the replay-set specification
MaxMarks == 1001
\* dapp_request calls made in the connection specification
MaxConnectTasks == 2
\* dapp_request calls made in the accounts specification
MaxAccountTasks == 2
\* dapp_request calls made in the session-activity specification
MaxActivityTasks == 2
\* dapp_request calls made in the timestamp specification
MaxFreshTasks == 3
\* dapp_request calls made in the navigation specification
MaxNavTasks == 2
\* check_limit calls made for each (key, method) pair in the pairs specification
MaxPairChecks == 3
\* approval requests made in the teardown specification
MaxTeardownIds == 3
\* calls made on the window registry in the registry specification
MaxRegistryCalls == 5
\* switch_network commands and chain-id requests made in the network specification
MaxNetworkCalls == 3
\* dapp_request calls made in the granted-accounts specification
MaxGrantTasks == 2
\* how far update_activity_for_window may push last_activity ahead of the
\* clock in the session specification
MaxActivityAhead == 2

(* Program constants *)

\* approval.rs:143  if pending.len() >= 10
QueueLimit == 10
\* approval.rs:161  timeout: Duration::from_secs(300)
ApprovalTimeout == 300

\* the instants the clock advances to: the last second of a timeout that
\* began at 0, and the first second past it
Instants == {ApprovalTimeout, ApprovalTimeout + 1}

Windows == {"w1", "w2"}
Origins == {"oA", "oB"}

----------------------------------------------------------------------------
(* Approval queue: dapp/approval.rs *)

\* ApprovalRequestType (the variants the handlers create), with its origin
ApprovalRequestType ==
    [type : {"Connection", "Transaction", "PersonalSign"}, origin : Origins]

\* ApprovalRequest
ApprovalRequest(id, window_label, request_type) ==
    [id |-> id, window_label |-> window_label, request_type |-> request_type,
     created_at |-> now, timeout |-> ApprovalTimeout]

\* mutant: every request shares the channel of the first one
PendingApproval_SharedChannel(id, window_label, request_type) ==
    [request |-> ApprovalRequest(id, window_label, request_type),
     created |-> now, response_tx |-> 1]

\* PendingApproval: the request, its Instant and the Sender of its channel
PendingApproval(id, window_label, request_type) ==
    [request |-> ApprovalRequest(id, window_label, request_type),
     created |-> now, response_tx |-> id]

\* ApprovalResponse
ApprovalResponse(id, approved, data) ==
    [id |-> id, approved |-> approved, data |-> data]

\* what the user interface may put in ApprovalResponse.data
ResponseData == {"None", "password"}

\* oneshot::channel(): nothing sent yet. rx is what the caller of add_request
\* does with the Receiver it is handed: "waiting" when it keeps it to await the
\* response, "dropped" when it discards it at once (as test_queue_limit does).
\* sends counts the calls of Sender::send on it (at most 2 are told apart).
NewChannel(rx) == [rx |-> rx, slot |-> <<>>, sends |-> 0]

\* oneshot::Sender::send: the value reaches the slot unless the receiver is
\* gone (then send returns Err and the callers ignore it with `let _ =`).
\* The slot entry carries, beside the response, the operation that sent it
\* and the approved flag its caller asked for (FALSE when it passed none).
SenderSend(c, resp, by, asked) ==
    [c EXCEPT !.sends = IF @ < 2 THEN @ + 1 ELSE @,
              !.slot = IF c.rx = "waiting" /\ Len(@) < 2
                       THEN Append(@, [resp |-> resp, by |-> by, asked |-> asked])
                       ELSE @]

\* the channels after each approval in DOMAIN responses was taken out of
\* `pending` and got its response on its own Sender
SendAll(responses, by) ==
    [c \in DOMAIN chan |->
        LET from == {id \in DOMAIN responses : pending[id].response_tx = c}
        IN IF from = {} THEN chan[c]
           ELSE SenderSend(chan[c], responses[CHOOSE id \in from : TRUE], by, FALSE)]

\* mutant: the entries are read (HashMap::get) and stay in the map
RemoveKeys_Kept(map, ids) == map

\* HashMap::remove of a set of keys
RemoveKeys(map, ids) == [k \in DOMAIN map \ ids |-> map[k]]

\* mutant: the limit test is off by one
QueueFull_OffByOne(p) == Cardinality(DOMAIN p) > QueueLimit

\* pending.len() >= 10
QueueFull(p) == Cardinality(DOMAIN p) >= QueueLimit

\* the most recent call on the queue: the method, the approval id it was
\* given or made (0: none) and its result
Called(op, id, ret) == [op |-> op, id |-> id, ret |-> ret]

\* ApprovalQueue::add_request; rx: see NewChannel; idcap bounds the ids the
\* model can draw
ApprovalQueue_add_request(window_label, request_type, rx, idcap) ==
    IF QueueFull(pending)
    THEN /\ last' = Called("add_request", 0, "QueueFull")
         /\ UNCHANGED <<pending, uuid, chan>>
    ELSE LET id == uuid + 1 IN
         /\ uuid < idcap
         /\ uuid' = id
         /\ pending' = pending @@ (id :> PendingApproval(id, window_label, request_type))
         /\ chan' = chan @@ (id :> NewChannel(rx))
         /\ last' = Called("add_request", id, "Ok")

\* ApprovalQueue::respond
ApprovalQueue_respond(response) ==
    IF response.id \in DOMAIN pending
    THEN LET approval == pending[response.id] IN
         /\ pending' = RemoveKeys(pending, {response.id})
         /\ chan' = [chan EXCEPT ![approval.response_tx] =
                        SenderSend(@, response, "respond", response.approved)]
         /\ last' = Called("respond", response.id, "Ok")
         /\ UNCHANGED uuid
    ELSE /\ last' = Called("respond", response.id, "NotFound")
         /\ UNCHANGED <<pending, uuid, chan>>

\* mutant: cancelling an unknown id is reported as a success
ApprovalQueue_cancel_Idempotent(id) ==
    IF id \in DOMAIN pending
    THEN LET approval == pending[id] IN
         /\ pending' = RemoveKeys(pending, {id})
         /\ chan' = [chan EXCEPT ![approval.response_tx] =
                        SenderSend(@, ApprovalResponse(id, FALSE, "None"), "cancel", FALSE)]
         /\ last' = Called("cancel", id, "Ok")
         /\ UNCHANGED uuid
    ELSE /\ last' = Called("cancel", id, "Ok")
         /\ UNCHANGED <<pending, uuid, chan>>

\* ApprovalQueue::cancel
ApprovalQueue_cancel(id) ==
    IF id \in DOMAIN pending
    THEN LET approval == pending[id] IN
         /\ pending' = RemoveKeys(pending, {id})
         /\ chan' = [chan EXCEPT ![approval.response_tx] =
                        SenderSend(@, ApprovalResponse(id, FALSE, "None"), "cancel", FALSE)]
         /\ last' = Called("cancel", id, "Ok")
         /\ UNCHANGED uuid
    ELSE /\ last' = Called("cancel", id, "NotFound")
         /\ UNCHANGED <<pending, uuid, chan>>

\* mutant: a request expires when its age reaches the timeout
Expired_AtTimeout(approval) == now - approval.created >= approval.request.timeout

\* approval.created.elapsed() > approval.request.timeout
Expired(approval) == now - approval.created > approval.request.timeout

\* mutant: the expiry sweep approves
TimeoutResponse_Approved(id) == ApprovalResponse(id, TRUE, "Request timeout")

\* the response cleanup_expired sends
TimeoutResponse(id) == ApprovalResponse(id, FALSE, "Request timeout")

\* ApprovalQueue::cleanup_expired
ApprovalQueue_cleanup_expired ==
    LET expired == {id \in DOMAIN pending : Expired(pending[id])} IN
    /\ pending' = RemoveKeys(pending, expired)
    /\ chan' = SendAll([id \in expired |-> TimeoutResponse(id)], "cleanup_expired")
    /\ last' = Called("cleanup_expired", 0, "Ok")
    /\ UNCHANGED uuid

\* mutant: clearing the queue approves what it clears
ClearedResponse_Approved(id) == ApprovalResponse(id, TRUE, "Queue cleared")

\* the response clear_all sends
ClearedResponse(id) == ApprovalResponse(id, FALSE, "Queue cleared")

\* ApprovalQueue::clear_all
ApprovalQueue_clear_all ==
    /\ pending' = RemoveKeys(pending, DOMAIN pending)
    /\ chan' = SendAll([id \in DOMAIN pending |-> ClearedResponse(id)], "clear_all")
    /\ last' = Called("clear_all", 0, "Ok")
    /\ UNCHANGED uuid

\* the response clear_for_window sends
WindowClosedResponse(id) == ApprovalResponse(id, FALSE, "Window closed")

\* mutant: the filter lets every request through
ForWindow_Any(approval, window_label) == TRUE

\* the filter of clear_for_window: approval.request.window_label == window_label
ForWindow(approval, window_label) == approval.request.window_label = window_label

\* ApprovalQueue::clear_for_window
ApprovalQueue_clear_for_window(window_label) ==
    LET to_remove == {id \in DOMAIN pending : ForWindow(pending[id], window_label)} IN
    /\ pending' = RemoveKeys(pending, to_remove)
    /\ chan' = SendAll([id \in to_remove |-> WindowClosedResponse(id)], "clear_for_window")
    /\ last' = Called("clear_for_window", 0, "Ok")
    /\ UNCHANGED uuid

\* the caller of add_request awaits its receiver and takes the response
ReceiverAwait(id) ==
    /\ id \in DOMAIN chan
    /\ chan[id].rx = "waiting"
    /\ chan[id].slot # <<>>
    /\ chan' = [chan EXCEPT ![id].rx = "received"]

\* the caller of add_request drops its receiver without a response
ReceiverDrop(id) ==
    /\ id \in DOMAIN chan
    /\ chan[id].rx = "waiting"
    /\ chan[id].slot = <<>>
    /\ chan' = [chan EXCEPT ![id].rx = "dropped"]

----------------------------------------------------------------------------
(* Session manager: dapp/session.rs *)

\* the accounts of the wallet; active_account() is the first one throughout
Accounts == {"a1", "a2"}
ActiveAccount == "a1"

\* mutant: sessions are keyed by their origin alone
SessionKey_OriginOnly(window_label, origin) == <<"", origin>>

\* SessionKey
SessionKey(window_label, origin) == <<window_label, origin>>

\* DappConnection, as create_session_for_window builds it
DappConnection(window_label, origin, accounts) ==
    [window_label |-> window_label, origin |-> origin, accounts |-> accounts,
     connected_at |-> now, last_activity |-> now]

\* HashMap::insert
Insert(map, key, value) ==
    [k \in DOMAIN map \cup {key} |-> IF k = key THEN value ELSE map[k]]

\* SessionManager::create_session_for_window
SessionManager_create_session_for_window(window_label, origin, accounts) ==
    sessions' = Insert(sessions, SessionKey(window_label, origin),
                       DappConnection(window_label, origin, accounts))

\* SessionManager::get_session_by_window: the Option as a set, {} for None
SessionManager_get_session_by_window(window_label, origin) ==
    IF SessionKey(window_label, origin) \in DOMAIN sessions
    THEN {sessions[SessionKey(window_label, origin)]}
    ELSE {}

\* mutant: a missing record passes the validation
SessionManager_validate_session_for_window_FailOpen(window_label, origin) ==
    LET key == SessionKey(window_label, origin) IN
    IF key \in DOMAIN sessions /\ sessions[key].origin # origin
    THEN "OriginMismatch"
    ELSE "Ok"

\* SessionManager::validate_session_for_window
SessionManager_validate_session_for_window(window_label, origin) ==
    LET key == SessionKey(window_label, origin) IN
    IF key \in DOMAIN sessions
    THEN IF sessions[key].origin # origin THEN "OriginMismatch"
         ELSE IF sessions[key].window_label # window_label THEN "WindowLabelMismatch"
         ELSE "Ok"
    ELSE "NotConnected"

\* mutant: the first argument, whatever the second
Max_First(a, b) == a

Max(a, b) == IF a >= b THEN a ELSE b
\* mutant: the first argument, whatever the second
Min_First(a, b) == a

Min(a, b) == IF a <= b THEN a ELSE b

\* SessionManager::update_activity_for_window (its result is ignored)
SessionManager_update_activity_for_window(window_label, origin) ==
    LET key == SessionKey(window_label, origin) IN
    sessions' = IF key \in DOMAIN sessions
                THEN [sessions EXCEPT ![key].last_activity = Max(now, @ + 1)]
                ELSE sessions

\* what update_activity_for_window returns
SessionManager_update_activity_for_window_result(window_label, origin) ==
    IF SessionKey(window_label, origin) \in DOMAIN sessions THEN "Ok" ELSE "NotConnected"

\* SessionManager::remove_session_by_window
SessionManager_remove_session_by_window(window_label, origin) ==
    sessions' = RemoveKeys(sessions, {SessionKey(window_label, origin)})

\* SessionManager::remove_all_sessions_for_window
SessionManager_remove_all_sessions_for_window(window_label) ==
    sessions' = RemoveKeys(sessions, {k \in DOMAIN sessions : k[1] = window_label})

----------------------------------------------------------------------------
(* Window registry: dapp/window_registry.rs *)

\* WindowInfo
WindowInfo(window_label, origin) ==
    [window_label |-> window_label, current_origin |-> origin,
     created_at |-> now, last_navigation |-> now]

\* what register_window returns: Err when the label is known
WindowRegistry_register_window_result(window_label) ==
    IF window_label \in DOMAIN windows THEN "Err" ELSE "Ok"

\* what update_origin returns: Err when the label is unknown
WindowRegistry_update_origin_result(window_label) ==
    IF window_label \in DOMAIN windows THEN "Ok" ELSE "Err"

\* mutant: a second registration replaces the record
WindowRegistry_register_window_Replace(window_label, origin) ==
    windows' = Insert(windows, window_label, WindowInfo(window_label, origin))

\* WindowRegistry::register_window (an error when the label is known)
WindowRegistry_register_window(window_label, origin) ==
    windows' = IF window_label \in DOMAIN windows THEN windows
               ELSE Insert(windows, window_label, WindowInfo(window_label, origin))

\* WindowRegistry::update_origin (an error when the label is unknown)
WindowRegistry_update_origin(window_label, new_origin) ==
    windows' = IF window_label \in DOMAIN windows
               THEN [windows EXCEPT ![window_label].current_origin = new_origin,
                                    ![window_label].last_navigation = now]
               ELSE windows

\* WindowRegistry::remove_window
WindowRegistry_remove_window(window_label) ==
    windows' = RemoveKeys(windows, {window_label})

----------------------------------------------------------------------------
(* Rate limiter: dapp/rate_limiter.rs *)

\* Token counts are f64 in the program; the model counts them in units of
\* 1/TokenScale token, which makes every refill over whole seconds exact.
TokenScale == 36

\* RateLimitConfig::default
RateLimitConfig_default ==
    [per_second |-> 10, per_minute |-> 100, per_hour |-> 1000, burst_size |-> 20]

\* mutant: sensitive methods may burst to three
RateLimitConfig_sensitive_Burst3 ==
    [per_second |-> 1, per_minute |-> 10, per_hour |-> 100, burst_size |-> 3]

\* RateLimitConfig::sensitive
RateLimitConfig_sensitive ==
    [per_second |-> 1, per_minute |-> 10, per_hour |-> 100, burst_size |-> 2]

\* mutant: read-only methods may burst to 40 only
RateLimitConfig_read_only_Burst40 ==
    [per_second |-> 20, per_minute |-> 200, per_hour |-> 2000, burst_size |-> 40]

\* RateLimitConfig::read_only
RateLimitConfig_read_only ==
    [per_second |-> 20, per_minute |-> 200, per_hour |-> 2000, burst_size |-> 50]

\* RateLimitConfig::connection
RateLimitConfig_connection ==
    [per_second |-> 5, per_minute |-> 20, per_hour |-> 100, burst_size |-> 10]

\* the methods MethodRateLimits::new lists
SensitiveMethods ==
    {"eth_sendTransaction", "eth_sign", "eth_signTypedData", "eth_signTypedData_v3",
     "eth_signTypedData_v4", "personal_sign", "wallet_addEthereumChain",
     "wallet_switchEthereumChain"}
ConnectionMethods == {"eth_requestAccounts", "wallet_requestPermissions"}
ReadOnlyMethods ==
    {"eth_call", "eth_estimateGas", "eth_getBalance", "eth_getCode", "eth_getStorageAt",
     "eth_getTransactionCount", "eth_getBlockByNumber", "eth_getBlockByHash",
     "eth_getTransactionByHash", "eth_getTransactionReceipt", "eth_getLogs"}

\* MethodRateLimits::get_config
MethodRateLimits_get_config(method) ==
    IF method \in SensitiveMethods THEN RateLimitConfig_sensitive
    ELSE IF method \in ConnectionMethods THEN RateLimitConfig_connection
    ELSE IF method \in ReadOnlyMethods THEN RateLimitConfig_read_only
    ELSE RateLimitConfig_default

\* MultiTierBucket::new
MultiTierBucket_new(config) ==
    [second_tokens |-> TokenScale * config.burst_size, second_last_refill |-> now,
     minute_tokens |-> TokenScale * config.per_minute, minute_last_refill |-> now,
     hour_tokens |-> TokenScale * config.per_hour, hour_last_refill |-> now,
     config |-> config]

\* mutant: any elapsed time fills every tier to its ceiling
MultiTierBucket_refill_Full(b) ==
    IF now = b.second_last_refill THEN b
    ELSE [b EXCEPT !.second_tokens = TokenScale * b.config.burst_size,
                   !.second_last_refill = now,
                   !.minute_tokens = TokenScale * b.config.per_minute,
                   !.minute_last_refill = now,
                   !.hour_tokens = TokenScale * b.config.per_hour,
                   !.hour_last_refill = now]

\* MultiTierBucket::refill
MultiTierBucket_refill(b) ==
    [b EXCEPT
       !.second_tokens =
           Min(@ + (now - b.second_last_refill) * TokenScale * b.config.per_second,
               TokenScale * b.config.burst_size),
       !.second_last_refill = now,
       !.minute_tokens =
           Min(@ + ((now - b.minute_last_refill) * TokenScale * b.config.per_minute) \div 60,
               TokenScale * b.config.per_minute),
       !.minute_last_refill = now,
       !.hour_tokens =
           Min(@ + ((now - b.hour_last_refill) * TokenScale * b.config.per_hour) \div 3600,
               TokenScale * b.config.per_hour),
       !.hour_last_refill = now]

\* mutant: each tier is charged as soon as it was found to hold a token
MultiTierBucket_try_consume_Stepwise(b) ==
    LET r == MultiTierBucket_refill(b)
        s == [r EXCEPT !.second_tokens = @ - TokenScale]
        u == [s EXCEPT !.minute_tokens = @ - TokenScale]
    IN IF r.second_tokens < TokenScale
       THEN [bucket |-> r, result |-> "per-second limit exceeded"]
       ELSE IF r.minute_tokens < TokenScale
       THEN [bucket |-> s, result |-> "per-minute limit exceeded"]
       ELSE IF r.hour_tokens < TokenScale
       THEN [bucket |-> u, result |-> "per-hour limit exceeded"]
       ELSE [bucket |-> [u EXCEPT !.hour_tokens = @ - TokenScale], result |-> "Ok"]

\* MultiTierBucket::try_consume: the bucket after the call and its result
MultiTierBucket_try_consume(b) ==
    LET r == MultiTierBucket_refill(b) IN
    IF r.second_tokens < TokenScale
    THEN [bucket |-> r, result |-> "per-second limit exceeded"]
    ELSE IF r.minute_tokens < TokenScale
    THEN [bucket |-> r, result |-> "per-minute limit exceeded"]
    ELSE IF r.hour_tokens < TokenScale
    THEN [bucket |-> r, result |-> "per-hour limit exceeded"]
    ELSE [bucket |-> [r EXCEPT !.second_tokens = @ - TokenScale,
                               !.minute_tokens = @ - TokenScale,
                               !.hour_tokens = @ - TokenScale],
          result |-> "Ok"]

\* mutant: the second part alone
Format_Second(a, b) == b

\* format!("{}:{}", a, b)
Format(a, b) == a \o ":" \o b

\* RateLimiter::check_limit: the buckets after the call and its result
RateLimiter_check_limit(origin, method) ==
    LET key == Format(origin, method)
        bucket == IF key \in DOMAIN buckets THEN buckets[key]
                  ELSE MultiTierBucket_new(MethodRateLimits_get_config(method))
        r == MultiTierBucket_try_consume(bucket)
    IN [buckets |-> Insert(buckets, key, r.bucket),
        result |-> IF r.result = "Ok" THEN "Ok" ELSE "RateLimitExceeded"]

----------------------------------------------------------------------------
(* Replay protection: commands/dapp.rs, ProcessedRequests *)

\* dapp.rs:116  if requests.len() > 1000
ProcessedCap == 1000

\* mutant: no id is found
ProcessedRequests_is_processed_Never(id) == FALSE

\* ProcessedRequests::is_processed
ProcessedRequests_is_processed(id) == id \in processed

\* requests.iter().take(n): the first n ids in the iteration order of the
\* HashSet, which is any order: any n of the ids (n is 1 whenever the set was
\* within the cap before the insert)
Take(requests, n) ==
    IF n = 1 THEN {{id} : id \in requests}
    ELSE {ids \in SUBSET requests : Cardinality(ids) = n}

\* ProcessedRequests::mark_processed: past the cap, as many ids as exceed it
\* are removed, in the iteration order of the HashSet (any of them)
ProcessedRequests_mark_processed(id) ==
    LET inserted == processed \cup {id} IN
    IF Cardinality(inserted) > ProcessedCap
    THEN \E to_remove \in Take(inserted, Cardinality(inserted) - ProcessedCap) :
            processed' = inserted \ to_remove
    ELSE processed' = inserted

----------------------------------------------------------------------------
(* The request router: commands/dapp.rs dapp_request and dapp/rpc_handler.rs *)
(*                                                                         *)
(* One dapp_request call is a task. Its record holds the request, the      *)
(* position of the call (pc) and what the call has done so far: the layers *)
(* it ran, the approval it enqueued, the chain-adapter calls it made,      *)
(* whether it signed, the accounts its handler returned, the WalletError   *)
(* its handler returned, and the error code of the DappResponse it         *)
(* returned (0: none) with the place that produced it.                     *)

\* dapp.rs:229  (now - request.timestamp) > 300
MaxRequestAge == 300
\* rpc_handler.rs:376  tokio::time::Duration::from_secs(300)
SendTxTimeout == 300

\* mutant: the signing methods are exempt from the session check
NoAuthMethods_WithSigning ==
    {"eth_chainId", "net_version", "eth_blockNumber", "eth_requestAccounts",
     "eth_accounts", "eth_sendTransaction", "personal_sign"}

\* dapp.rs:264  no_auth_methods
NoAuthMethods ==
    {"eth_chainId", "net_version", "eth_blockNumber", "eth_requestAccounts",
     "eth_accounts"}

\* mutant: the replay check is made before the timestamp check
LayerOrder_ReplayFirst == <<"rate", "replay", "fresh", "auth", "dispatch">>

\* the layers of dapp_request in the order of its statements: rate limiting,
\* request validation, replay protection, session validation, handle_request
LayerOrder == <<"rate", "fresh", "replay", "auth", "dispatch">>

\* the layer whose statements follow those of `layer`
LayerAfter(layer) ==
    LayerOrder[(CHOOSE i \in 1..Len(LayerOrder) : LayerOrder[i] = layer) + 1]

\* a dapp_request call that has just been made by the webview; `seen` notes
\* whether its id was in the processed set when the call was made
NewTask(method, window_label, origin, id, timestamp, address) ==
    [via |-> "dapp_request", seen |-> id \in processed,
     method |-> method, window_label |-> window_label, origin |-> origin,
     id |-> id, timestamp |-> timestamp, address |-> address,
     pc |-> LayerOrder[1], layers |-> <<>>, rate_at |-> 0,
     approval |-> 0, enqueued |-> 0, adapter |-> 0, signed |-> FALSE,
     result |-> {}, wallet_error |-> "none", error |-> 0, by |-> "none",
     held |-> {}, network_id |-> "none", wrote |-> 0]

\* a request read by websocket.rs handle_connection or passed to the
\* handle_dapp_request command: its first statement on the wallet's state is
\* rpc_handler::handle_request (the JSON id of a websocket message is only
\* echoed in the reply; neither transport reads a timestamp)
TransportTask(via, method, window_label, origin, address) ==
    [NewTask(method, window_label, origin, "none", 0, address)
        EXCEPT !.via = via, !.pc = "dispatch"]

\* what the transport makes of a handler's error: dapp_request maps it to an
\* EIP-1193 code, handle_connection answers every error with code -32000,
\* handle_dapp_request returns the error's text (kept here as its code)
TransportError(via, error) ==
    IF via = "websocket" /\ error # 0 THEN 0 - 32000 ELSE error

\* the call returns a DappResponse (error 0: with a result)
Returned(task, by, error) ==
    [task EXCEPT !.pc = "done", !.by = by, !.error = TransportError(task.via, error)]

\* the layer is entered
Ran(task, layer) == [task EXCEPT !.layers = Append(@, layer)]

\* dapp.rs:316  Convert WalletError to DappError
ErrorCode(e) ==
    CASE e = "NotConnected" -> 4100
      [] e = "OriginMismatch" -> 4903
      [] e = "RateLimitExceeded" -> 4902
      [] e = "UnsupportedMethod" -> 4200
      [] e = "InvalidParams" -> 0 - 32602
      [] e = "InvalidAddress" -> 0 - 32602
      [] e = "WalletLocked" -> 4100
      [] OTHER -> 0 - 32603

\* the locks of the maps the calls share: the rate limiter's buckets, the
\* sessions, the window registry and the pending approvals
Locks == {"buckets", "sessions", "windows", "pending"}

\* lock().await, read().await or write().await returns to call t (0: a
\* command of the wallet window): no other call holds the lock. A read
\* guard is counted as exclusive.
LockFree(t, lock) == \A u \in DOMAIN tasks \ {t} : lock \notin tasks[u].held

\* mutant: the guard outlives the method that took it
MethodReturns_Holding(task, lock) == [task EXCEPT !.held = @ \cup {lock}]

\* a method of one of the four subsystems returns to its caller: the guard
\* is a local of the method's body and is dropped with it
MethodReturns(task, lock) == [task EXCEPT !.held = @ \ {lock}]

\* handle_request returns Err(e): the call returns the DappResponse with
\* the code of e
Err(task, by, e) ==
    [Returned(task, by, ErrorCode(e)) EXCEPT !.wallet_error = e]

\* Layer 2: rate limiting
dapp_request_rate_limit(t) ==
    LET task == Ran(tasks[t], "rate")
        r == RateLimiter_check_limit(Format(task.window_label, task.origin), task.method)
    IN /\ tasks[t].pc = "rate"
       /\ LockFree(t, "buckets")
       /\ buckets' = r.buckets
       /\ tasks' = [tasks EXCEPT ![t] = MethodReturns(
                       IF r.result = "Ok"
                       THEN [task EXCEPT !.pc = LayerAfter("rate"), !.rate_at = now]
                       ELSE Returned([task EXCEPT !.rate_at = now], "rate", 4902),
                       "buckets")]
       /\ UNCHANGED <<now, queueVars, sessions, windows, processed, closing>>

\* mutant: the age is taken without asking whether now is the later time, and
\* the unsigned difference of an earlier now wraps to a huge age
dapp_request_validate_Unguarded(t) ==
    LET task == Ran(tasks[t], "fresh") IN
    /\ tasks[t].pc = "fresh"
    /\ tasks' = [tasks EXCEPT ![t] =
                    IF now < task.timestamp \/ (now - task.timestamp) > MaxRequestAge
                    THEN Returned(task, "fresh", 4904)
                    ELSE [task EXCEPT !.pc = LayerAfter("fresh")]]
    /\ UNCHANGED <<now, queueVars, sessions, windows, buckets, processed, closing>>

\* Layer 3: request validation (the timestamp)
dapp_request_validate(t) ==
    LET task == Ran(tasks[t], "fresh") IN
    /\ tasks[t].pc = "fresh"
    /\ tasks' = [tasks EXCEPT ![t] =
                    IF now > task.timestamp /\ (now - task.timestamp) > MaxRequestAge
                    THEN Returned(task, "fresh", 4904)
                    ELSE [task EXCEPT !.pc = LayerAfter("fresh")]]
    /\ UNCHANGED <<now, queueVars, sessions, windows, buckets, processed, closing>>

\* Layer 4: replay protection
dapp_request_replay(t) ==
    LET task == Ran(tasks[t], "replay") IN
    /\ tasks[t].pc = "replay"
    /\ tasks' = [tasks EXCEPT ![t] =
                    IF ProcessedRequests_is_processed(task.id)
                    THEN Returned(task, "replay", 4905)
                    ELSE [task EXCEPT !.pc = LayerAfter("replay")]]
    /\ UNCHANGED <<now, queueVars, sessions, windows, buckets, processed, closing>>

\* Layer 5: session validation, skipped for the methods that need no session
dapp_request_session(t) ==
    LET task == tasks[t] IN
    /\ task.pc = "auth"
    /\ task.method \notin NoAuthMethods => LockFree(t, "sessions")
    /\ tasks' = [tasks EXCEPT ![t] =
                    IF task.method \in NoAuthMethods
                    THEN [task EXCEPT !.pc = LayerAfter("auth")]
                    ELSE MethodReturns(
                         IF SessionManager_validate_session_for_window(
                                task.window_label, task.origin) # "Ok"
                         THEN Returned(Ran(task, "auth"), "auth", 4100)
                         ELSE [Ran(task, "auth") EXCEPT !.pc = "activity"],
                         "sessions")]
    /\ UNCHANGED <<now, queueVars, sessions, windows, buckets, processed, closing>>

\* Layer 5, second call: update_activity_for_window
dapp_request_activity(t) ==
    LET task == tasks[t] IN
    /\ task.pc = "activity"
    /\ LockFree(t, "sessions")
    /\ SessionManager_update_activity_for_window(task.window_label, task.origin)
    /\ tasks' = [tasks EXCEPT ![t] =
                    MethodReturns([task EXCEPT !.pc = LayerAfter("auth")], "sessions")]
    /\ UNCHANGED <<now, queueVars, windows, buckets, processed, closing>>

\* the ApprovalRequestType a handler builds
RequestTypeOf(method, origin) ==
    [type |-> CASE method = "eth_requestAccounts" -> "Connection"
                [] method = "eth_sendTransaction" -> "Transaction"
                [] OTHER -> "PersonalSign",
     origin |-> origin]

\* mutant: a connected window is told the wallet's active account
handle_request_accounts_Active(task) ==
    IF SessionManager_get_session_by_window(task.window_label, task.origin) # {}
    THEN [task EXCEPT !.pc = "mark", !.result = {ActiveAccount}]
    ELSE [task EXCEPT !.pc = "enqueue"]

\* Layer 6 of an eth_requestAccounts call: handle_request routes it to
\* handle_request_accounts, which looks for a session of this window
handle_request_accounts(task) ==
    LET session == SessionManager_get_session_by_window(task.window_label, task.origin) IN
    IF session # {}
    THEN [task EXCEPT !.pc = "mark", !.result = UNION {s.accounts : s \in session}]
    ELSE [task EXCEPT !.pc = "enqueue"]

\* Layer 6 of an eth_sendTransaction call: handle_send_transaction up to its
\* add_request; the request gives no gasPrice, so the adapter's get_gas_price
\* is called
handle_send_transaction(task) ==
    [task EXCEPT !.pc = "enqueue", !.adapter = @ + 1]

\* Layer 6 of a personal_sign call: handle_personal_sign up to its add_request
handle_personal_sign(task) ==
    LET session == SessionManager_get_session_by_window(task.window_label, task.origin) IN
    IF session = {}
    THEN Err(task, "handler", "NotConnected")
    ELSE IF \A s \in session : task.address \notin s.accounts
    THEN Err(task, "handler", "PermissionDenied")
    ELSE [task EXCEPT !.pc = "enqueue"]

\* mutant: the accounts of any session of the origin, whatever its window
handle_accounts_AnyWindow(task) ==
    [task EXCEPT !.pc = "mark",
                 !.result = UNION {sessions[k].accounts :
                                      k \in {j \in DOMAIN sessions : j[2] = task.origin}}]

\* handle_accounts: the accounts of the window's session, or none; the call
\* succeeds either way
handle_accounts(task) ==
    LET session == SessionManager_get_session_by_window(task.window_label, task.origin) IN
    [task EXCEPT !.pc = "mark", !.result = UNION {s.accounts : s \in session}]

\* handle_chain_id, handle_net_version, handle_block_number,
\* handle_get_balance: one call on the current chain adapter
handle_adapter_read(task) == [task EXCEPT !.pc = "mark", !.adapter = @ + 1]

\* the methods handle_request routes to a handler that reads the adapter
AdapterReadMethods == {"eth_chainId", "net_version", "eth_blockNumber", "eth_getBalance"}

\* the methods whose handler begins with get_session_by_window
SessionHandlers == {"eth_requestAccounts", "eth_accounts", "personal_sign"}

\* Layer 6: rpc_handler::handle_request and the handler it routes to, up to
\* the handler's first call on the approval queue
rpc_handler_handle_request(t) ==
    LET task == Ran(tasks[t], "dispatch") IN
    /\ tasks[t].pc = "dispatch"
    /\ task.method \in SessionHandlers => LockFree(t, "sessions")
    /\ tasks' = [tasks EXCEPT ![t] =
          CASE task.method = "eth_requestAccounts" ->
                  MethodReturns(handle_request_accounts(task), "sessions")
            [] task.method = "eth_accounts" ->
                  MethodReturns(handle_accounts(task), "sessions")
            [] task.method \in AdapterReadMethods -> handle_adapter_read(task)
            [] task.method = "eth_sendTransaction" -> handle_send_transaction(task)
            [] task.method = "personal_sign" ->
                  MethodReturns(handle_personal_sign(task), "sessions")
            [] OTHER -> Err(task, "handler", "UnsupportedMethod")]
    /\ UNCHANGED <<now, queueVars, sessions, windows, buckets, processed, closing>>

\* the handler's add_request; every task enqueues at most once, and the
\* requests of the windows whose calls are not followed never exceed the
\* queue's limit, so the ids drawn stay below the sum of the two
handler_add_request(t) ==
    LET task == tasks[t] IN
    /\ task.pc = "enqueue"
    /\ LockFree(t, "pending")
    /\ ApprovalQueue_add_request(task.window_label,
                                 RequestTypeOf(task.method, task.origin),
                                 "waiting", QueueLimit + Len(tasks))
    /\ tasks' = [tasks EXCEPT ![t] = MethodReturns(
                    IF last'.ret = "Ok"
                    THEN [task EXCEPT !.pc = "await", !.approval = last'.id,
                                      !.enqueued = now]
                    ELSE Err(task, "handler", last'.ret),
                    "pending")]
    /\ UNCHANGED <<now, sessions, windows, buckets, processed, closing>>

\* mutant: a response without a password counts as one with the password
PasswordOf_Default(response) == {"password"}

\* response.data.and_then(|d| d.get("password")): the password, if there is one
PasswordOf(response) ==
    IF response.data = "None" THEN {} ELSE {response.data}

\* rx.await returns the response: handle_request_accounts goes on to create
\* the session, the signing handlers go on to sign if they got a password
handler_receive(t) ==
    LET task == tasks[t]
        response == chan'[task.approval].slot[1].resp
    IN /\ task.pc = "await"
       /\ ReceiverAwait(task.approval)
       /\ tasks' = [tasks EXCEPT ![t] =
                       IF ~response.approved
                       THEN Err(task, "handler", "UserRejected")
                       ELSE IF task.method = "eth_requestAccounts"
                       THEN [task EXCEPT !.pc = "create"]
                       ELSE IF PasswordOf(response) = {}
                       THEN Err(task, "handler", "Custom")
                       ELSE [task EXCEPT !.pc = "sign"]]
       /\ UNCHANGED <<now, pending, uuid, last, sessions, windows, buckets,
                      processed, closing>>

\* the handlers whose wait for the response is wrapped in tokio::time::timeout
TimedMethods == {"eth_sendTransaction"}

\* the task waits under a timeout that has not fired yet
TimerArmed(task) == task.pc = "await" /\ task.method \in TimedMethods

\* tokio::time::timeout elapses in handle_send_transaction: the receiver is
\* dropped, the request stays in the pending map
handler_timeout(t) ==
    LET task == tasks[t] IN
    /\ TimerArmed(task)
    /\ now - task.enqueued >= SendTxTimeout
    /\ ReceiverDrop(task.approval)
    /\ tasks' = [tasks EXCEPT ![t] = Err(task, "timeout", "Custom")]
    /\ UNCHANGED <<now, pending, uuid, last, sessions, windows, buckets,
                   processed, closing>>

\* handle_request_accounts after the approval: active_account and
\* create_session_for_window
handler_create_session(t) ==
    LET task == tasks[t] IN
    /\ task.pc = "create"
    /\ LockFree(t, "sessions")
    /\ SessionManager_create_session_for_window(task.window_label, task.origin,
                                                {ActiveAccount})
    /\ tasks' = [tasks EXCEPT ![t] = MethodReturns(
                    [task EXCEPT !.pc = "mark", !.result = {ActiveAccount}],
                    "sessions")]
    /\ UNCHANGED <<now, queueVars, windows, buckets, processed, closing>>

\* the signing handlers after the approval: handle_send_transaction verifies
\* the password, gets the signer and the nonce and sends (adapter calls),
\* handle_personal_sign calls sign_message
handler_sign(t) ==
    LET task == tasks[t] IN
    /\ task.pc = "sign"
    /\ tasks' = [tasks EXCEPT ![t] =
                    IF task.address \notin Accounts
                    THEN Err(task, "handler", "AccountNotFound")
                    ELSE [task EXCEPT !.pc = "mark", !.signed = TRUE,
                                      !.adapter = IF task.method = "eth_sendTransaction"
                                                  THEN @ + 1 ELSE @]]
    /\ UNCHANGED <<now, queueVars, sessions, windows, buckets, processed, closing>>

\* dapp_request after handle_request returned Ok: mark_processed, and the
\* DappResponse carries the result
dapp_request_mark_processed(t) ==
    LET task == tasks[t] IN
    /\ task.pc = "mark"
    /\ task.via = "dapp_request"
    /\ ProcessedRequests_mark_processed(task.id)
    /\ tasks' = [tasks EXCEPT ![t] = Returned(task, "handler", 0)]
    /\ UNCHANGED <<now, queueVars, sessions, windows, buckets, closing>>

\* handle_connection and handle_dapp_request after handle_request returned
\* Ok: the result is sent back, nothing is recorded
transport_return(t) ==
    LET task == tasks[t] IN
    /\ task.pc = "mark"
    /\ task.via # "dapp_request"
    /\ tasks' = [tasks EXCEPT ![t] = Returned(task, "handler", 0)]
    /\ UNCHANGED <<now, queueVars, sessions, windows, buckets, processed, closing>>

\* one step of a dapp_request call before its handler waits
AdmissionStep(t) ==
    \/ dapp_request_rate_limit(t)
    \/ dapp_request_validate(t)
    \/ dapp_request_replay(t)
    \/ dapp_request_session(t)
    \/ rpc_handler_handle_request(t)
    \/ handler_add_request(t)

\* the call is suspended on its approval or has returned
Suspended(task) == task.pc \in {"await", "done"}

----------------------------------------------------------------------------
(* The commands of the wallet window and of the dApp windows *)

\* the webview of the window exists: it was opened and close_dapp has not
\* closed it
Alive(window_label) ==
    window_label \in DOMAIN closing /\ closing[window_label] # "closed"

\* window.rs open_dapp_url: a window with a fresh label is built and registered
open_dapp_url(window_label, origin) ==
    /\ window_label \notin DOMAIN closing
    /\ WindowRegistry_register_window(window_label, origin)
    /\ closing' = Insert(closing, window_label, "none")
    /\ UNCHANGED <<now, queueVars, sessions, buckets, processed, tasks>>

\* the webview of the window invokes dapp_request
dapp_request(method, window_label, origin, id, timestamp, address) ==
    /\ Alive(window_label)
    /\ tasks' = Append(tasks, NewTask(method, window_label, origin, id, timestamp, address))
    /\ UNCHANGED <<now, queueVars, sessions, windows, buckets, processed, closing>>

\* websocket.rs handle_connection reads a JSON-RPC text message from a client
\* of the loopback listener; _window_label and _origin are fields of the
\* message, so any label and any origin can be named
websocket_handle_connection(method, window_label, origin, address) ==
    /\ tasks' = Append(tasks, TransportTask("websocket", method, window_label, origin,
                                             address))
    /\ UNCHANGED <<now, queueVars, sessions, windows, buckets, processed, closing>>

\* dapp_ipc.rs handle_dapp_request, invoked by the webview of the window
handle_dapp_request(method, window_label, origin, address) ==
    /\ Alive(window_label)
    /\ tasks' = Append(tasks, TransportTask("ipc", method, window_label, origin, address))
    /\ UNCHANGED <<now, queueVars, sessions, windows, buckets, processed, closing>>

\* window.rs navigate_dapp: the webview is sent to the new URL and the
\* registry is given its origin
navigate_dapp(window_label, origin) ==
    /\ Alive(window_label)
    /\ WindowRegistry_update_origin(window_label, origin)
    /\ UNCHANGED <<now, queueVars, sessions, buckets, processed, tasks, closing>>

\* dapp.rs disconnect_dapp
disconnect_dapp(window_label, origin) ==
    /\ Alive(window_label)
    /\ SessionManager_remove_session_by_window(window_label, origin)
    /\ UNCHANGED <<now, queueVars, windows, buckets, processed, tasks, closing>>

\* dapp.rs connect_dapp, called when active_account() was `account`: the
\* session keeps that account when the wallet's active account changes
connect_dapp_as(window_label, origin, account) ==
    /\ Alive(window_label)
    /\ SessionManager_create_session_for_window(window_label, origin, {account})
    /\ UNCHANGED <<now, queueVars, windows, buckets, processed, tasks, closing>>

\* dapp.rs connect_dapp
connect_dapp(window_label, origin) ==
    /\ Alive(window_label)
    /\ SessionManager_create_session_for_window(window_label, origin, {ActiveAccount})
    /\ UNCHANGED <<now, queueVars, windows, buckets, processed, tasks, closing>>

\* dapp.rs respond_to_approval: get_request finds the request, respond answers it
respond_to_approval(response) ==
    /\ LockFree(0, "pending")
    /\ response.id \in DOMAIN pending
    /\ ApprovalQueue_respond(response)
    /\ UNCHANGED <<now, gateVars>>

\* dapp.rs clear_all_approvals
clear_all_approvals ==
    /\ LockFree(0, "pending")
    /\ ApprovalQueue_clear_all
    /\ UNCHANGED <<now, gateVars>>

\* dapp.rs cancel_approval
cancel_approval(id) ==
    /\ LockFree(0, "pending")
    /\ id \in DOMAIN pending
    /\ ApprovalQueue_cancel(id)
    /\ UNCHANGED <<now, gateVars>>

\* window.rs close_dapp, first call: remove_all_sessions_for_window
close_dapp_sessions(window_label) ==
    /\ Alive(window_label)
    /\ closing[window_label] = "none"
    /\ SessionManager_remove_all_sessions_for_window(window_label)
    /\ closing' = [closing EXCEPT ![window_label] = "sessions"]
    /\ UNCHANGED <<now, queueVars, windows, buckets, processed, tasks>>

\* window.rs close_dapp, second call: clear_for_window
close_dapp_approvals(window_label) ==
    /\ window_label \in DOMAIN closing
    /\ closing[window_label] = "sessions"
    /\ ApprovalQueue_clear_for_window(window_label)
    /\ closing' = [closing EXCEPT ![window_label] = "approvals"]
    /\ UNCHANGED <<now, sessions, windows, buckets, processed, tasks>>

\* window.rs close_dapp, third call and the end: remove_window, window.close
close_dapp_registry(window_label) ==
    /\ window_label \in DOMAIN closing
    /\ closing[window_label] = "approvals"
    /\ WindowRegistry_remove_window(window_label)
    /\ closing' = [closing EXCEPT ![window_label] = "closed"]
    /\ UNCHANGED <<now, queueVars, sessions, buckets, processed, tasks>>

----------------------------------------------------------------------------
(* The clock *)

Tick(to) ==
    /\ now < to
    /\ to <= MaxNow
    /\ now' = to

\* time passes, but not past the deadline of a timeout that is armed
TimerTick(to) ==
    /\ Tick(to)
    /\ \A t \in DOMAIN tasks :
          TimerArmed(tasks[t]) => to <= tasks[t].enqueued + SendTxTimeout

----------------------------------------------------------------------------
(* Initial state: VaughanState::new and PROCESSED_REQUESTS, nothing opened *)

Init ==
    /\ now = 0
    /\ pending = <<>>
    /\ uuid = 0
    /\ chan = <<>>
    /\ last = Called("new", 0, "Ok")
    /\ sessions = <<>>
    /\ windows = <<>>
    /\ buckets = <<>>
    /\ processed = {}
    /\ tasks = <<>>
    /\ closing = <<>>

----------------------------------------------------------------------------
(* SpecQueue: the approval queue driven through its public methods by any   *)
(* number of concurrent callers, as in the tests of approval.rs.            *)

Ids == 1..MaxIds

Q_AddRequest ==
    /\ \E w \in Windows, rt \in {[type |-> "Connection", origin |-> "oA"]} :
          ApprovalQueue_add_request(w, rt, "waiting", MaxIds)
    /\ UNCHANGED <<now, gateVars>>

Q_Respond ==
    /\ \E id \in Ids, approved \in BOOLEAN, data \in ResponseData :
          ApprovalQueue_respond(ApprovalResponse(id, approved, data))
    /\ UNCHANGED <<now, gateVars>>

Q_Cancel ==
    /\ \E id \in Ids : ApprovalQueue_cancel(id)
    /\ UNCHANGED <<now, gateVars>>

Q_CleanupExpired ==
    /\ ApprovalQueue_cleanup_expired
    /\ UNCHANGED <<now, gateVars>>

Q_ClearAll ==
    /\ ApprovalQueue_clear_all
    /\ UNCHANGED <<now, gateVars>>

Q_ClearForWindow ==
    /\ \E w \in Windows : ApprovalQueue_clear_for_window(w)
    /\ UNCHANGED <<now, gateVars>>

Q_Receive ==
    /\ \E id \in Ids : ReceiverAwait(id)
    /\ UNCHANGED <<now, pending, uuid, last, gateVars>>

Q_Drop ==
    /\ \E id \in Ids : ReceiverDrop(id)
    /\ UNCHANGED <<now, pending, uuid, last, gateVars>>

Q_Tick ==
    /\ \E to \in Instants : Tick(to)
    /\ UNCHANGED <<queueVars, gateVars>>

NextQueue ==
    \/ Q_AddRequest
    \/ Q_Respond
    \/ Q_Cancel
    \/ Q_CleanupExpired
    \/ Q_ClearAll
    \/ Q_ClearForWindow
    \/ Q_Receive
    \/ Q_Drop
    \/ Q_Tick

SpecQueue == Init /\ [][NextQueue]_vars

----------------------------------------------------------------------------
(* SpecBound: the queue filled to its limit, as in test_queue_limit: the    *)
(* callers discard their receivers, one window, the clock stands still.     *)

BoundIds == 1..MaxBoundIds

B_AddRequest ==
    /\ ApprovalQueue_add_request("w1", [type |-> "Connection", origin |-> "oA"],
                                 "dropped", MaxBoundIds)
    /\ UNCHANGED <<now, gateVars>>

B_Respond ==
    /\ \E id \in BoundIds, approved \in BOOLEAN :
          ApprovalQueue_respond(ApprovalResponse(id, approved, "None"))
    /\ UNCHANGED <<now, gateVars>>

B_Cancel ==
    /\ \E id \in BoundIds : ApprovalQueue_cancel(id)
    /\ UNCHANGED <<now, gateVars>>

B_ClearAll ==
    /\ ApprovalQueue_clear_all
    /\ UNCHANGED <<now, gateVars>>

B_ClearForWindow ==
    /\ \E w \in Windows : ApprovalQueue_clear_for_window(w)
    /\ UNCHANGED <<now, gateVars>>

NextBound ==
    \/ B_AddRequest
    \/ B_Respond
    \/ B_Cancel
    \/ B_ClearAll
    \/ B_ClearForWindow

SpecBound == Init /\ [][NextBound]_vars

----------------------------------------------------------------------------
(* SpecGate: one dApp window sends up to MaxTasks requests through          *)
(* dapp_request within one second, the next one when the calls before it    *)
(* are suspended on their approval or have returned; the wallet window      *)
(* connects the dApp once and answers the approvals.                        *)

GateMethods == {"eth_requestAccounts", "eth_sendTransaction"}
\* the request ids of the webview in the order it first uses them: a request
\* repeats an id already used or takes the next one
RequestIds == <<"r1", "r2", "r3", "r4">>
NextRequestIds(used) ==
    {RequestIds[i] : i \in 1..Min(Len(RequestIds), Cardinality(used) + 1)}
\* every request carries the timestamp of the start of the run
Timestamps == {0}
\* what the user answers: reject, or approve and give the password
UserResponses == {<<FALSE, "None">>, <<TRUE, "password">>}

G_Open ==
    open_dapp_url("w1", "oA")

G_Request ==
    /\ Len(tasks) < MaxTasks
    /\ \A t \in DOMAIN tasks : Suspended(tasks[t])
    /\ \E method \in GateMethods, timestamp \in Timestamps,
          id \in NextRequestIds({tasks[t].id : t \in DOMAIN tasks}) :
          dapp_request(method, "w1", "oA", id, timestamp, ActiveAccount)

G_Connect ==
    /\ sessions = <<>>
    /\ connect_dapp("w1", "oA")

G_Respond ==
    \E id \in DOMAIN pending, r \in UserResponses :
        respond_to_approval(ApprovalResponse(id, r[1], r[2]))

G_Task ==
    \E t \in DOMAIN tasks :
        \/ AdmissionStep(t)
        \/ dapp_request_activity(t)
        \/ handler_receive(t)
        \/ handler_create_session(t)
        \/ handler_sign(t)
        \/ dapp_request_mark_processed(t)

G_Tick ==
    /\ tasks = <<>>
    /\ \E to \in Instants : Tick(to)
    /\ UNCHANGED <<queueVars, gateVars>>

NextGate ==
    \/ G_Open
    \/ G_Request
    \/ G_Connect
    \/ G_Respond
    \/ G_Task
    \/ G_Tick

SpecGate == Init /\ [][NextGate]_vars

----------------------------------------------------------------------------
(* SpecSign: one connected dApp window sends up to MaxSignTasks signing     *)
(* requests, each once the ones before it wait for their approval or have   *)
(* returned; the user answers, cancels or does not; the clock runs,         *)
(* and a timeout that is armed fires when its time has come.                *)

SignMethods == {"eth_sendTransaction", "personal_sign"}

S_Open ==
    open_dapp_url("w1", "oA")

S_Connect ==
    /\ sessions = <<>>
    /\ connect_dapp("w1", "oA")

S_Request ==
    /\ Len(tasks) < MaxSignTasks
    /\ \A t \in DOMAIN tasks : Suspended(tasks[t])
    /\ sessions # <<>>
    /\ \E method \in SignMethods :
          dapp_request(method, "w1", "oA", RequestIds[Len(tasks) + 1], now, ActiveAccount)

\* what the approval dialog may answer: also an approval without a password
SignResponses == UserResponses \cup {<<TRUE, "None">>}

S_Respond ==
    \E id \in DOMAIN pending, r \in SignResponses :
        respond_to_approval(ApprovalResponse(id, r[1], r[2]))

S_Cancel ==
    \E id \in DOMAIN pending : cancel_approval(id)

S_Task ==
    \E t \in DOMAIN tasks :
        \/ AdmissionStep(t)
        \/ dapp_request_activity(t)
        \/ handler_receive(t)
        \/ handler_timeout(t)
        \/ handler_sign(t)
        \/ dapp_request_mark_processed(t)

S_Tick ==
    /\ \E to \in Instants : TimerTick(to)
    /\ UNCHANGED <<queueVars, gateVars>>

NextSign ==
    \/ S_Open
    \/ S_Connect
    \/ S_Request
    \/ S_Respond
    \/ S_Cancel
    \/ S_Task
    \/ S_Tick

SpecSign == Init /\ [][NextSign]_vars

----------------------------------------------------------------------------
(* SpecClose: one dApp window asks to be connected, up to MaxCloseTasks     *)
(* times and concurrently; the user answers; the window is closed by        *)
(* close_dapp while all this goes on.                                       *)

K_Open ==
    open_dapp_url("w1", "oA")

K_Request ==
    /\ Len(tasks) < MaxCloseTasks
    /\ dapp_request("eth_requestAccounts", "w1", "oA", RequestIds[Len(tasks) + 1],
                    now, ActiveAccount)

K_Respond ==
    \E id \in DOMAIN pending, r \in UserResponses :
        respond_to_approval(ApprovalResponse(id, r[1], r[2]))

K_Task ==
    \E t \in DOMAIN tasks :
        \/ AdmissionStep(t)
        \/ handler_receive(t)
        \/ handler_create_session(t)
        \/ dapp_request_mark_processed(t)

K_CloseSessions ==
    \E w \in DOMAIN closing : close_dapp_sessions(w)

K_CloseApprovals ==
    \E w \in DOMAIN closing : close_dapp_approvals(w)

K_CloseRegistry ==
    \E w \in DOMAIN closing : close_dapp_registry(w)

NextClose ==
    \/ K_Open
    \/ K_Request
    \/ K_Respond
    \/ K_Task
    \/ K_CloseSessions
    \/ K_CloseApprovals
    \/ K_CloseRegistry

SpecClose == Init /\ [][NextClose]_vars

----------------------------------------------------------------------------
(* SpecLive: what the program does by itself. The runtime runs every call   *)
(* that can take a step and time passes (weak fairness); whether the user   *)
(* ever answers or cancels an approval is up to the user (no fairness).     *)
(* No action runs cleanup_expired: nothing in the program calls it, the     *)
(* setup in lib.rs starts the proxy and the WebSocket server only.          *)

L_Open ==
    open_dapp_url("w1", "oA")

L_Request ==
    /\ Len(tasks) < MaxLiveTasks
    /\ dapp_request("eth_requestAccounts", "w1", "oA", RequestIds[Len(tasks) + 1],
                    now, ActiveAccount)

L_Respond ==
    \E id \in DOMAIN pending, r \in UserResponses :
        respond_to_approval(ApprovalResponse(id, r[1], r[2]))

L_Cancel ==
    \E id \in DOMAIN pending : cancel_approval(id)

L_Task ==
    \E t \in DOMAIN tasks :
        \/ AdmissionStep(t)
        \/ handler_receive(t)
        \/ handler_create_session(t)
        \/ dapp_request_mark_processed(t)

L_Tick ==
    /\ \E to \in Instants : TimerTick(to)
    /\ UNCHANGED <<queueVars, gateVars>>

NextLive ==
    \/ L_Open
    \/ L_Request
    \/ L_Respond
    \/ L_Cancel
    \/ L_Task
    \/ L_Tick

SpecLive ==
    /\ Init
    /\ [][NextLive]_vars
    /\ WF_vars(L_Task)
    /\ WF_vars(L_Tick)

----------------------------------------------------------------------------
(* SpecSession: the session manager alone. Its methods are called in any    *)
(* order for the sessions of two windows on one origin and of one of them   *)
(* on a second origin; `last` holds the most recent call, the (window,      *)
(* origin) it was given and its result. The wall clock (SystemTime) moves   *)
(* forward and may be set back.                                             *)

SessionKeys == {<<"w1", "oA">>, <<"w2", "oA">>, <<"w1", "oB">>}

M_Create ==
    \E k \in SessionKeys :
        /\ SessionManager_create_session_for_window(k[1], k[2], {ActiveAccount})
        /\ last' = Called("create_session_for_window", k, "Ok")
        /\ UNCHANGED <<now, pending, uuid, chan, windows, buckets, processed, tasks,
                       closing>>

M_Get ==
    \E k \in SessionKeys :
        /\ last' = Called("get_session_by_window", k,
                          IF SessionManager_get_session_by_window(k[1], k[2]) = {}
                          THEN "None" ELSE "Some")
        /\ UNCHANGED <<now, pending, uuid, chan, gateVars>>

M_Validate ==
    \E k \in SessionKeys :
        /\ last' = Called("validate_session_for_window", k,
                          SessionManager_validate_session_for_window(k[1], k[2]))
        /\ UNCHANGED <<now, pending, uuid, chan, gateVars>>

M_UpdateActivity ==
    \E k \in SessionKeys :
        /\ k \in DOMAIN sessions => sessions[k].last_activity < now + MaxActivityAhead
        /\ SessionManager_update_activity_for_window(k[1], k[2])
        /\ last' = Called("update_activity_for_window", k,
                          SessionManager_update_activity_for_window_result(k[1], k[2]))
        /\ UNCHANGED <<now, pending, uuid, chan, windows, buckets, processed, tasks,
                       closing>>

M_Remove ==
    \E k \in SessionKeys :
        /\ SessionManager_remove_session_by_window(k[1], k[2])
        /\ last' = Called("remove_session_by_window", k, "Ok")
        /\ UNCHANGED <<now, pending, uuid, chan, windows, buckets, processed, tasks,
                       closing>>

M_RemoveAll ==
    \E w \in Windows :
        /\ SessionManager_remove_all_sessions_for_window(w)
        /\ last' = Called("remove_all_sessions_for_window", <<w, "*">>, "Ok")
        /\ UNCHANGED <<now, pending, uuid, chan, windows, buckets, processed, tasks,
                       closing>>

\* SystemTime::now is the wall clock: it advances, and it can be set back
M_Clock ==
    /\ \E to \in Instants \cup {0} : to # now /\ to <= MaxNow /\ now' = to
    /\ UNCHANGED <<queueVars, gateVars>>

NextSession ==
    \/ M_Create
    \/ M_Get
    \/ M_Validate
    \/ M_UpdateActivity
    \/ M_Remove
    \/ M_RemoveAll
    \/ M_Clock

SpecSession == Init /\ [][NextSession]_vars

----------------------------------------------------------------------------
(* SpecRate: the rate limiter alone. check_limit is called up to MaxChecks  *)
(* times for one method of one (window, origin), with any number of whole   *)
(* seconds between the calls; the method is one of each profile. `last`     *)
(* holds "check_limit" while no time has passed since the bucket was        *)
(* created and "check_limit_later" afterwards, the number of calls made so  *)
(* far, and the result of the latest one. Time passes before the first     *)
(* MaxSpacedChecks calls only; the later calls follow at once.              *)

\* the origin dapp_request passes to check_limit
RateOrigin == Format("w1", "oA")

\* a sensitive, a connection, a read-only and an unclassified method
RateMethods == {"eth_sendTransaction", "eth_requestAccounts", "eth_getBalance",
                "eth_chainId"}

R_Check ==
    \E method \in RateMethods :
        LET r == RateLimiter_check_limit(RateOrigin, method) IN
        /\ buckets = <<>> \/ Format(RateOrigin, method) \in DOMAIN buckets
        /\ last.id < MaxChecks
        /\ buckets' = r.buckets
        /\ last' = Called(IF buckets = <<>> THEN "check_limit" ELSE last.op,
                          last.id + 1, r.result)
        /\ UNCHANGED <<now, pending, uuid, chan, sessions, windows, processed, tasks,
                       closing>>

R_Tick ==
    /\ now < MaxRateNow
    /\ last.id < MaxSpacedChecks
    /\ now' = now + 1
    /\ last' = IF buckets = <<>> THEN last ELSE [last EXCEPT !.op = "check_limit_later"]
    /\ UNCHANGED <<pending, uuid, chan, gateVars>>

NextRate ==
    \/ R_Check
    \/ R_Tick

SpecRate == Init /\ [][NextRate]_vars

----------------------------------------------------------------------------
(* SpecRefill: a fresh bucket is exhausted by a burst of calls made in one  *)
(* instant, then up to MaxWait seconds pass, then calls follow at once, as  *)
(* in test_per_second_limit and test_refill_rates. `last` holds the phase   *)
(* ("burst", "wait", "after") and the calls made in it; its result holds    *)
(* the method, what the latest call returned, the successes of the phase    *)
(* and the time that passed in between.                                     *)

F_Burst ==
    \E method \in RateMethods :
        LET r == RateLimiter_check_limit(RateOrigin, method) IN
        /\ last.op \in {"new", "burst"}
        /\ buckets = <<>> \/ Format(RateOrigin, method) \in DOMAIN buckets
        /\ last.id < MaxChecks
        /\ buckets' = r.buckets
        /\ last' = Called("burst", last.id + 1,
                          [result |-> r.result, method |-> method, elapsed |-> 0,
                           ok |-> IF r.result # "Ok" THEN last.ret.ok
                                  ELSE IF last.op = "new" THEN 1 ELSE last.ret.ok + 1])
        /\ UNCHANGED <<now, pending, uuid, chan, sessions, windows, processed, tasks,
                       closing>>

F_Wait ==
    \E t \in 1..MaxWait :
        /\ last.op = "burst"
        /\ buckets[Format(RateOrigin, last.ret.method)].second_tokens < TokenScale
        /\ now' = now + t
        /\ last' = Called("wait", 0, [last.ret EXCEPT !.elapsed = t, !.ok = 0])
        /\ UNCHANGED <<pending, uuid, chan, gateVars>>

F_After ==
    LET r == RateLimiter_check_limit(RateOrigin, last.ret.method) IN
    /\ last.op \in {"wait", "after"}
    /\ last.id < MaxChecks
    /\ buckets' = r.buckets
    /\ last' = Called("after", last.id + 1,
                      [last.ret EXCEPT !.result = r.result,
                                       !.ok = IF r.result = "Ok" THEN @ + 1 ELSE @])
    /\ UNCHANGED <<now, pending, uuid, chan, sessions, windows, processed, tasks,
                   closing>>

NextRefill ==
    \/ F_Burst
    \/ F_Wait
    \/ F_After

SpecRefill == Init /\ [][NextRefill]_vars

----------------------------------------------------------------------------
(* SpecFresh: one dApp window without a session sends up to MaxFreshTasks   *)
(* requests, one after the other, whose timestamps lie before, at and after *)
(* the wallet's clock; the clock moves between the calls, so that the time  *)
(* a call returns at is the time its checks have read.                      *)

FreshMethods == {"eth_chainId", "eth_sendTransaction"}

\* the client's timestamps: the start, a second later, and a time the
\* wallet's clock does not reach
FreshTimestamps == {0, 1, MaxNow + 99}

H_Open ==
    open_dapp_url("w1", "oA")

H_Request ==
    /\ Len(tasks) < MaxFreshTasks
    /\ \A t \in DOMAIN tasks : Suspended(tasks[t])
    /\ \E method \in FreshMethods, timestamp \in FreshTimestamps,
          id \in NextRequestIds({tasks[t].id : t \in DOMAIN tasks}) :
          dapp_request(method, "w1", "oA", id, timestamp, ActiveAccount)

H_Task ==
    \E t \in DOMAIN tasks :
        \/ dapp_request_rate_limit(t)
        \/ dapp_request_validate(t)
        \/ dapp_request_replay(t)
        \/ dapp_request_session(t)
        \/ rpc_handler_handle_request(t)
        \/ dapp_request_mark_processed(t)

H_Tick ==
    /\ \A t \in DOMAIN tasks : Suspended(tasks[t])
    /\ \E to \in Instants : Tick(to)
    /\ UNCHANGED <<queueVars, gateVars>>

NextFresh ==
    \/ H_Open
    \/ H_Request
    \/ H_Task
    \/ H_Tick

SpecFresh == Init /\ [][NextFresh]_vars

----------------------------------------------------------------------------
(* SpecReplay: the processed-request set alone. mark_processed is called up *)
(* to MaxMarks times, each time with an id not used before; the ids are     *)
(* numbered in the order of the calls, and `last` holds the latest.         *)

P_Mark ==
    /\ last.id < MaxMarks
    /\ ProcessedRequests_mark_processed(last.id + 1)
    /\ last' = Called("mark_processed", last.id + 1, "Ok")
    /\ UNCHANGED <<now, pending, uuid, chan, sessions, windows, buckets, tasks, closing>>

NextReplay ==
    \/ P_Mark

SpecReplay == Init /\ [][NextReplay]_vars

----------------------------------------------------------------------------
(* SpecActivity: one dApp window, connected by connect_dapp before its      *)
(* first request or not at all, sends up to MaxActivityTasks requests with  *)
(* ids of their own, each after the one before has returned, within one     *)
(* second: methods of the no-session list, a method that needs a session,   *)
(* and one handle_request does not support.                                 *)

ActivityMethods == {"eth_chainId", "eth_accounts", "eth_getBalance", "eth_call"}

Y_Open ==
    open_dapp_url("w1", "oA")

Y_Connect ==
    /\ sessions = <<>>
    /\ tasks = <<>>
    /\ connect_dapp("w1", "oA")

Y_Request ==
    /\ Len(tasks) < MaxActivityTasks
    /\ \A t \in DOMAIN tasks : tasks[t].pc = "done"
    /\ \E method \in ActivityMethods :
          dapp_request(method, "w1", "oA", RequestIds[Len(tasks) + 1], now, ActiveAccount)

Y_Task ==
    \E t \in DOMAIN tasks :
        \/ dapp_request_rate_limit(t)
        \/ dapp_request_validate(t)
        \/ dapp_request_replay(t)
        \/ dapp_request_session(t)
        \/ dapp_request_activity(t)
        \/ rpc_handler_handle_request(t)
        \/ dapp_request_mark_processed(t)

NextActivity ==
    \/ Y_Open
    \/ Y_Connect
    \/ Y_Request
    \/ Y_Task

SpecActivity == Init /\ [][NextActivity]_vars

----------------------------------------------------------------------------
(* SpecConnect: one dApp window asks for a connection with                  *)
(* eth_requestAccounts, up to MaxConnectTasks calls, the next one when the  *)
(* calls before it are suspended or have returned. The wallet window        *)
(* answers, cancels and clears the approvals, connects the dApp itself, and *)
(* closes the window; the clock moves past the timeout of the approvals,    *)
(* and cleanup_expired is called as the queue's tests call it.              *)

E_Open ==
    open_dapp_url("w1", "oA")

E_Connect ==
    /\ SessionKey("w1", "oA") \notin DOMAIN sessions
    /\ connect_dapp("w1", "oA")

E_Request ==
    /\ Len(tasks) < MaxConnectTasks
    /\ \A t \in DOMAIN tasks : Suspended(tasks[t])
    /\ dapp_request("eth_requestAccounts", "w1", "oA", RequestIds[Len(tasks) + 1], now,
                    ActiveAccount)

\* a handler of another dApp window, whose call is not followed further,
\* puts its request in the queue and waits for the response; these requests
\* are there before the window w1 is opened
E_Fill ==
    /\ closing = <<>>
    /\ now = 0
    /\ sessions = <<>>
    /\ Cardinality(DOMAIN pending) = uuid
    /\ ApprovalQueue_add_request("w2", [type |-> "Connection", origin |-> "oB"],
                                 "waiting", QueueLimit)
    /\ last'.ret = "Ok"
    /\ UNCHANGED <<now, gateVars>>

\* the approvals of the calls that are followed
ConnectIds == {tasks[t].approval : t \in DOMAIN tasks}

E_Respond ==
    \E id \in DOMAIN pending \cap ConnectIds, r \in UserResponses :
        respond_to_approval(ApprovalResponse(id, r[1], r[2]))

E_Cancel ==
    \E id \in DOMAIN pending \cap ConnectIds : cancel_approval(id)

E_ClearAll ==
    /\ pending # <<>>
    /\ clear_all_approvals

E_Sweep ==
    /\ \E id \in DOMAIN pending : Expired(pending[id])
    /\ ApprovalQueue_cleanup_expired
    /\ UNCHANGED <<now, gateVars>>

E_Close ==
    \/ close_dapp_sessions("w1")
    \/ close_dapp_approvals("w1")
    \/ close_dapp_registry("w1")

E_Task ==
    \E t \in DOMAIN tasks :
        \/ AdmissionStep(t)
        \/ handler_receive(t)
        \/ handler_create_session(t)
        \/ dapp_request_mark_processed(t)

E_Tick ==
    /\ pending # <<>>
    /\ Tick(ApprovalTimeout + 1)
    /\ UNCHANGED <<queueVars, gateVars>>

NextConnect ==
    \/ E_Open
    \/ E_Fill
    \/ E_Connect
    \/ E_Request
    \/ E_Respond
    \/ E_Cancel
    \/ E_ClearAll
    \/ E_Sweep
    \/ E_Close
    \/ E_Task
    \/ E_Tick

SpecConnect == Init /\ [][NextConnect]_vars

----------------------------------------------------------------------------
(* SpecAccounts: two dApp windows on one origin ask for their accounts with *)
(* eth_requestAccounts and eth_accounts, up to MaxAccountTasks calls, the   *)
(* next one when the calls before it are suspended or have returned. The    *)
(* wallet window connects them (under either account) and disconnects       *)
(* them, answers the approvals, and closes the first window.                *)

ConnectMethods == {"eth_requestAccounts", "eth_accounts"}

O_Open ==
    \E w \in Windows : open_dapp_url(w, "oA")

O_Connect ==
    \E w \in Windows, account \in Accounts :
        /\ SessionKey(w, "oA") \notin DOMAIN sessions
        /\ connect_dapp_as(w, "oA", account)

O_Disconnect ==
    \E w \in Windows :
        /\ SessionKey(w, "oA") \in DOMAIN sessions
        /\ disconnect_dapp(w, "oA")

O_Request ==
    /\ Len(tasks) < MaxAccountTasks
    /\ \A t \in DOMAIN tasks : Suspended(tasks[t])
    /\ \E method \in ConnectMethods, w \in Windows :
          dapp_request(method, w, "oA", RequestIds[Len(tasks) + 1], now, ActiveAccount)

O_Respond ==
    \E id \in DOMAIN pending, r \in UserResponses :
        respond_to_approval(ApprovalResponse(id, r[1], r[2]))

O_Close ==
    \/ close_dapp_sessions("w1")
    \/ close_dapp_approvals("w1")
    \/ close_dapp_registry("w1")

O_Task ==
    \E t \in DOMAIN tasks :
        \/ AdmissionStep(t)
        \/ handler_receive(t)
        \/ handler_create_session(t)
        \/ dapp_request_mark_processed(t)

NextAccounts ==
    \/ O_Open
    \/ O_Connect
    \/ O_Disconnect
    \/ O_Request
    \/ O_Respond
    \/ O_Close
    \/ O_Task

SpecAccounts == Init /\ [][NextAccounts]_vars

----------------------------------------------------------------------------
(* SpecRegistry: the window registry called through register_window,        *)
(* update_origin and remove_window for two labels and two origins, up to    *)
(* MaxRegistryCalls times, as in the tests of window_registry.rs, while the *)
(* clock moves. `last` counts the calls; its result names the label and the *)
(* origin of the latest call and what it returned.                          *)

\* the record of a call on the registry
RegistryCall(op, window_label, origin, result) ==
    Called(op, last.id + 1,
           [window_label |-> window_label, origin |-> origin, result |-> result])

W_Register ==
    /\ last.id < MaxRegistryCalls
    /\ \E w \in Windows, o \in Origins :
          /\ WindowRegistry_register_window(w, o)
          /\ last' = RegistryCall("register_window", w, o,
                                   WindowRegistry_register_window_result(w))
    /\ UNCHANGED <<now, pending, uuid, chan, sessions, buckets, processed, tasks, closing>>

W_Update ==
    /\ last.id < MaxRegistryCalls
    /\ \E w \in Windows, o \in Origins :
          /\ WindowRegistry_update_origin(w, o)
          /\ last' = RegistryCall("update_origin", w, o,
                                   WindowRegistry_update_origin_result(w))
    /\ UNCHANGED <<now, pending, uuid, chan, sessions, buckets, processed, tasks, closing>>

W_Remove ==
    /\ last.id < MaxRegistryCalls
    /\ \E w \in DOMAIN windows :
          /\ WindowRegistry_remove_window(w)
          /\ last' = RegistryCall("remove_window", w, "", "Ok")
    /\ UNCHANGED <<now, pending, uuid, chan, sessions, buckets, processed, tasks, closing>>

W_Tick ==
    /\ \E to \in Instants : Tick(to)
    /\ UNCHANGED <<queueVars, gateVars>>

NextRegistry ==
    \/ W_Register
    \/ W_Update
    \/ W_Remove
    \/ W_Tick

SpecRegistry == Init /\ [][NextRegistry]_vars

----------------------------------------------------------------------------
(* SpecKeys: the rate limiter called for two keys and one method, a         *)
(* sensitive or a connection one, up to MaxKeyChecks times for each key, as *)
(* in test_per_origin_isolation. `last` counts the calls made in all; its   *)
(* result names the key of the latest call, what it returned, and how many  *)
(* calls each key has had.                                                  *)

\* the keys dapp_request passes for one window showing either of two origins
RateKeys == {Format("w1", "oA"), Format("w1", "oB")}

KeyMethods == {"eth_sendTransaction", "eth_requestAccounts"}

\* the calls made for each key so far
KeyCalls == IF last.op = "new" THEN [k \in RateKeys |-> 0] ELSE last.ret.calls

K_Check ==
    \E key \in RateKeys, method \in KeyMethods :
        LET r == RateLimiter_check_limit(key, method) IN
        /\ \A k \in RateKeys, other \in KeyMethods \ {method} :
               Format(k, other) \notin DOMAIN buckets
        /\ KeyCalls[key] < MaxKeyChecks
        /\ buckets' = r.buckets
        /\ last' = Called(IF buckets = <<>> THEN "check_limit" ELSE last.op,
                          last.id + 1,
                          [result |-> r.result, key |-> key, method |-> method,
                           calls |-> [KeyCalls EXCEPT ![key] = @ + 1]])
        /\ UNCHANGED <<now, pending, uuid, chan, sessions, windows, processed, tasks,
                       closing>>

K_Tick ==
    /\ now < MaxKeyNow
    /\ now' = now + 1
    /\ last' = IF buckets = <<>> THEN last ELSE [last EXCEPT !.op = "check_limit_later"]
    /\ UNCHANGED <<pending, uuid, chan, gateVars>>

NextKeys ==
    \/ K_Check
    \/ K_Tick

SpecKeys == Init /\ [][NextKeys]_vars

----------------------------------------------------------------------------
(* SpecPairs: the rate limiter called for the pairs of two keys and two     *)
(* method names, up to MaxPairChecks times for each pair, within one        *)
(* second. The keys are those dapp_request builds for one window showing    *)
(* an origin without and with a port; the method names are a sensitive      *)
(* method and the string a page may send in its place, the port and the     *)
(* method name separated by ':'. `last` counts the calls made in all; its   *)
(* result names the pair of the latest call, what it returned, and how many *)
(* calls each pair has had.                                                 *)

PairKeys == {Format("w1", "oA"), Format("w1", Format("oA", "8080"))}

PairMethods == {"eth_sendTransaction", Format("8080", "eth_sendTransaction")}

\* the calls made for each pair so far
PairCalls ==
    IF last.op = "new" THEN [pair \in PairKeys \X PairMethods |-> 0] ELSE last.ret.calls

J_Check ==
    \E key \in PairKeys, method \in PairMethods :
        LET r == RateLimiter_check_limit(key, method) IN
        /\ PairCalls[<<key, method>>] < MaxPairChecks
        /\ buckets' = r.buckets
        /\ last' = Called("check_limit", last.id + 1,
                          [result |-> r.result, key |-> key, method |-> method,
                           calls |-> [PairCalls EXCEPT ![<<key, method>>] = @ + 1]])
        /\ UNCHANGED <<now, pending, uuid, chan, sessions, windows, processed, tasks,
                       closing>>

NextPairs ==
    \/ J_Check

SpecPairs == Init /\ [][NextPairs]_vars

----------------------------------------------------------------------------
(* SpecTeardown: two dApp windows are opened and connected for either       *)
(* origin, handlers of both put up to MaxTeardownIds requests in the queue  *)
(* and wait for the responses, and close_dapp closes the windows.           *)

D_Open ==
    \E w \in Windows : open_dapp_url(w, "oA")

D_Connect ==
    \E w \in Windows, o \in Origins :
        /\ SessionKey(w, o) \notin DOMAIN sessions
        /\ connect_dapp(w, o)

D_AddRequest ==
    /\ \E w \in Windows :
          /\ Alive(w)
          /\ ApprovalQueue_add_request(w, [type |-> "Connection", origin |-> "oA"],
                                       "waiting", MaxTeardownIds)
    /\ UNCHANGED <<now, gateVars>>

D_Close ==
    \E w \in Windows :
        \/ close_dapp_sessions(w)
        \/ close_dapp_approvals(w)
        \/ close_dapp_registry(w)

NextTeardown ==
    \/ D_Open
    \/ D_Connect
    \/ D_AddRequest
    \/ D_Close

SpecTeardown == Init /\ [][NextTeardown]_vars

----------------------------------------------------------------------------
(* SpecNavigate: one dApp window is opened on an origin, connected by       *)
(* connect_dapp for the origin it shows, and navigated between two origins  *)
(* by navigate_dapp. It sends requests that need a session; dapp_request    *)
(* takes their origin from the window's URL or, for a dApp in an iframe,    *)
(* from the origin argument of the call.                                    *)

NavMethods == {"eth_getBalance", "personal_sign"}

N_Open ==
    open_dapp_url("w1", "oA")

N_Connect ==
    /\ "w1" \in DOMAIN windows
    /\ SessionKey("w1", windows["w1"].current_origin) \notin DOMAIN sessions
    /\ connect_dapp("w1", windows["w1"].current_origin)

N_Navigate ==
    \E o \in Origins :
        /\ "w1" \in DOMAIN windows
        /\ o # windows["w1"].current_origin
        /\ navigate_dapp("w1", o)

N_Request ==
    /\ Len(tasks) < MaxNavTasks
    /\ \A t \in DOMAIN tasks : Suspended(tasks[t])
    /\ \E method \in NavMethods, o \in Origins :
          dapp_request(method, "w1", o, RequestIds[Len(tasks) + 1], now, ActiveAccount)

N_Task ==
    \E t \in DOMAIN tasks :
        \/ AdmissionStep(t)
        \/ dapp_request_activity(t)
        \/ dapp_request_mark_processed(t)

NextNavigate ==
    \/ N_Open
    \/ N_Connect
    \/ N_Navigate
    \/ N_Request
    \/ N_Task

SpecNavigate == Init /\ [][NextNavigate]_vars

----------------------------------------------------------------------------
(* SpecAuth: one dApp window, connected and disconnected at any time, sends *)
(* up to MaxAuthTasks requests through dapp_request, one after the other:   *)
(* methods of the no-session list, methods that read the chain, signing     *)
(* methods, and a method handle_request does not support.                   *)

AuthMethods ==
    {"eth_chainId", "eth_accounts", "eth_getBalance", "eth_call", "personal_sign",
     "eth_sendTransaction"}

A_Open ==
    open_dapp_url("w1", "oA")

A_Connect ==
    /\ sessions = <<>>
    /\ connect_dapp("w1", "oA")

A_Disconnect ==
    /\ sessions # <<>>
    /\ disconnect_dapp("w1", "oA")

A_Request ==
    /\ Len(tasks) < MaxAuthTasks
    /\ \A t \in DOMAIN tasks : Suspended(tasks[t])
    /\ \E method \in AuthMethods :
          dapp_request(method, "w1", "oA", RequestIds[Len(tasks) + 1], now, ActiveAccount)

A_Task ==
    \E t \in DOMAIN tasks :
        \/ AdmissionStep(t)
        \/ dapp_request_activity(t)
        \/ dapp_request_mark_processed(t)

NextAuth ==
    \/ A_Open
    \/ A_Connect
    \/ A_Disconnect
    \/ A_Request
    \/ A_Task

SpecAuth == Init /\ [][NextAuth]_vars

----------------------------------------------------------------------------
(* SpecTransport: the three ways a request reaches the wallet. A dApp       *)
(* window, connected or not, sends signing requests through the             *)
(* dapp_request command and through the handle_dapp_request command; a      *)
(* client of the loopback WebSocket listener sends them naming the window.  *)

T_Open ==
    open_dapp_url("w1", "oA")

T_Connect ==
    /\ sessions = <<>>
    /\ connect_dapp("w1", "oA")

T_DappRequest ==
    /\ Len(tasks) < MaxTransportTasks
    /\ \E method \in SignMethods :
          dapp_request(method, "w1", "oA", RequestIds[Len(tasks) + 1], now, ActiveAccount)

T_WebSocket ==
    /\ Len(tasks) < MaxTransportTasks
    /\ \E method \in SignMethods :
          websocket_handle_connection(method, "w1", "oA", ActiveAccount)

T_Ipc ==
    /\ Len(tasks) < MaxTransportTasks
    /\ \E method \in SignMethods :
          handle_dapp_request(method, "w1", "oA", ActiveAccount)

T_Respond ==
    \E id \in DOMAIN pending, r \in UserResponses :
        respond_to_approval(ApprovalResponse(id, r[1], r[2]))

T_Task ==
    \E t \in DOMAIN tasks :
        \/ AdmissionStep(t)
        \/ dapp_request_activity(t)
        \/ handler_receive(t)
        \/ handler_sign(t)
        \/ dapp_request_mark_processed(t)
        \/ transport_return(t)

NextTransport ==
    \/ T_Open
    \/ T_Connect
    \/ T_DappRequest
    \/ T_WebSocket
    \/ T_Ipc
    \/ T_Respond
    \/ T_Task

SpecTransport == Init /\ [][NextTransport]_vars

----------------------------------------------------------------------------
(* The network state: VaughanState.evm_adapters and active_network, two    *)
(* tokio Mutexes (state.rs:93, 97). switch_network and current_adapter     *)
(* each take both, and a guard is a local that lives to the end of the     *)
(* function, so each of the two lock().await calls is a step of its own.   *)
(* Only switch_network writes the two fields, so their values are read off *)
(* the switch_network calls made so far: `wrote` numbers the stores into   *)
(* active_network in the order they were made.                             *)

NetworkIds == {"mainnet", "sepolia"}

\* the switch_network calls that have stored their id in active_network
Switched == {t \in DOMAIN tasks : tasks[t].wrote > 0}

\* state.rs:97  active_network, None until the first store (state.rs:151)
active_network ==
    IF Switched = {} THEN "None"
    ELSE tasks[CHOOSE t \in Switched :
                  \A u \in Switched : tasks[u].wrote <= tasks[t].wrote].network_id

\* state.rs:93  the keys of evm_adapters: a call that has passed line 220
\* found or inserted the adapter of its network
evm_adapters ==
    {tasks[t].network_id :
        t \in {u \in DOMAIN tasks :
                  /\ tasks[u].via = "switch_network"
                  /\ tasks[u].pc = "switch_active_network" \/ tasks[u].wrote > 0}}

\* commands/network.rs:93  the switch_network command of the wallet window
\* calls state.switch_network
switch_network(network_id) ==
    /\ tasks' = Append(tasks,
                       [NewTask("switch_network", "main", "none", "none", 0, "none")
                           EXCEPT !.via = "switch_network",
                                  !.pc = "switch_evm_adapters",
                                  !.network_id = network_id])
    /\ UNCHANGED <<now, queueVars, sessions, windows, buckets, processed, closing>>

\* state.rs:214-221  evm_adapters.lock().await returns; the adapter of a
\* network that has none is made by EvmAdapter::new, which can fail, and
\* the `?` then returns the error and drops the guard
switch_network_evm_adapters(t) ==
    LET task == tasks[t] IN
    /\ task.via = "switch_network"
    /\ task.pc = "switch_evm_adapters"
    /\ LockFree(t, "evm_adapters")
    /\ \E created \in BOOLEAN :
          /\ (task.network_id \in evm_adapters) => created
          /\ tasks' = [tasks EXCEPT ![t] =
                IF created
                THEN [task EXCEPT !.pc = "switch_active_network",
                                  !.held = {"evm_adapters"}]
                ELSE Err(task, "switch_network", "NetworkError")]
    /\ UNCHANGED <<now, queueVars, sessions, windows, buckets, processed, closing>>

\* state.rs:223-226  active_network.lock().await returns while the adapters
\* guard is still held; the id is stored and both guards are dropped
switch_network_active_network(t) ==
    LET task == tasks[t] IN
    /\ task.via = "switch_network"
    /\ task.pc = "switch_active_network"
    /\ LockFree(t, "active_network")
    /\ tasks' = [tasks EXCEPT ![t] =
          [Returned(task, "switch_network", 0)
              EXCEPT !.held = {}, !.wrote = Cardinality(Switched) + 1]]
    /\ UNCHANGED <<now, queueVars, sessions, windows, buckets, processed, closing>>

\* the methods whose handler only asks the current adapter for its chain id
ChainIdMethods == {"eth_chainId", "net_version"}

\* rpc_handler.rs:186, 192  handle_chain_id / handle_net_version: the first
\* statement is state.current_adapter().await
handle_chain_id(method, window_label, origin) ==
    /\ tasks' = Append(tasks,
                       [TransportTask("dapp_request", method, window_label, origin, "none")
                           EXCEPT !.pc = "current_active_network"])
    /\ UNCHANGED <<now, queueVars, sessions, windows, buckets, processed, closing>>

\* state.rs:249-252  active_network.lock().await returns; with no network
\* selected the `?` returns NetworkNotInitialized and drops the guard
current_adapter_active_network(t) ==
    LET task == tasks[t] IN
    /\ task.via = "dapp_request"
    /\ task.pc = "current_active_network"
    /\ LockFree(t, "active_network")
    /\ tasks' = [tasks EXCEPT ![t] =
          IF active_network = "None"
          THEN Err(task, "handler", "NetworkNotInitialized")
          ELSE [task EXCEPT !.pc = "current_evm_adapters",
                            !.held = {"active_network"},
                            !.network_id = active_network]]
    /\ UNCHANGED <<now, queueVars, sessions, windows, buckets, processed, closing>>

\* state.rs:254-258  evm_adapters.lock().await returns while the
\* active_network guard is still held; the adapter is cloned, both guards
\* are dropped and the handler answers with the adapter's chain id
current_adapter_evm_adapters(t) ==
    LET task == tasks[t] IN
    /\ task.via = "dapp_request"
    /\ task.pc = "current_evm_adapters"
    /\ LockFree(t, "evm_adapters")
    /\ tasks' = [tasks EXCEPT ![t] =
          IF task.network_id \in evm_adapters
          THEN [Returned(task, "handler", 0)
                   EXCEPT !.held = {}, !.adapter = @ + 1,
                          !.result = {task.network_id}]
          ELSE [Err(task, "handler", "NetworkNotInitialized") EXCEPT !.held = {}]]
    /\ UNCHANGED <<now, queueVars, sessions, windows, buckets, processed, closing>>

----------------------------------------------------------------------------
(* The network specification: the wallet window switches networks while    *)
(* dApp windows ask for the chain id.                                      *)

V_Switch ==
    /\ Len(tasks) < MaxNetworkCalls
    /\ \E network_id \in NetworkIds : switch_network(network_id)

V_Request ==
    /\ Len(tasks) < MaxNetworkCalls
    /\ \E method \in ChainIdMethods : handle_chain_id(method, "w1", "oA")

V_Task ==
    \E t \in DOMAIN tasks :
        \/ switch_network_evm_adapters(t)
        \/ switch_network_active_network(t)
        \/ current_adapter_active_network(t)
        \/ current_adapter_evm_adapters(t)

NextNetwork ==
    \/ V_Switch
    \/ V_Request
    \/ V_Task

SpecNetwork == Init /\ [][NextNetwork]_vars

----------------------------------------------------------------------------
(* The granted-accounts specification: one dApp window whose session is    *)
(* made by connect_dapp for either account of the wallet and removed by    *)
(* disconnect_dapp at any time, also while a request waits for the user;   *)
(* the window sends signing requests that name either account.             *)

U_Open ==
    open_dapp_url("w1", "oA")

U_Connect ==
    /\ sessions = <<>>
    /\ \E account \in Accounts : connect_dapp_as("w1", "oA", account)

U_Disconnect ==
    /\ sessions # <<>>
    /\ disconnect_dapp("w1", "oA")

U_Request ==
    /\ Len(tasks) < MaxGrantTasks
    /\ \A t \in DOMAIN tasks : Suspended(tasks[t])
    /\ \E method \in SignMethods, address \in Accounts :
          dapp_request(method, "w1", "oA", RequestIds[Len(tasks) + 1], now, address)

U_Respond ==
    \E id \in DOMAIN pending, r \in UserResponses :
        respond_to_approval(ApprovalResponse(id, r[1], r[2]))

U_Task ==
    \E t \in DOMAIN tasks :
        \/ AdmissionStep(t)
        \/ dapp_request_activity(t)
        \/ handler_receive(t)
        \/ handler_sign(t)
        \/ dapp_request_mark_processed(t)

NextGrant ==
    \/ U_Open
    \/ U_Connect
    \/ U_Disconnect
    \/ U_Request
    \/ U_Respond
    \/ U_Task

SpecGrant == Init /\ [][NextGrant]_vars

----------------------------------------------------------------------------
(* Properties of the approval queue *)

\* the entries the channel of request id holds or held
Slot(id) == chan[id].slot

\* C1: every request made by add_request is taken out of the pending map and
\* sent a response by exactly one of respond, cancel, cleanup_expired,
\* clear_for_window and clear_all, however they race: its channel never sees a
\* second send, and it is pending exactly as long as nothing was sent.
C1_SingleDelivery ==
    \A id \in DOMAIN chan :
        /\ chan[id].sends <= 1
        /\ Len(Slot(id)) <= 1
        /\ (id \in DOMAIN pending <=> chan[id].sends = 0)

\* a resolved request on which a later respond or cancel lost the race
C1_Witness ==
    /\ last.op \in {"respond", "cancel"}
    /\ last.ret = "NotFound"
    /\ last.id \in DOMAIN chan
    /\ chan[last.id].sends = 1
    /\ Len(Slot(last.id)) = 1

\* a step that is a call of add_request
AddRequestStep == last' # last /\ last'.op = "add_request"

\* C2: at most 10 requests are pending in every state; add_request succeeds
\* exactly when fewer than 10 are pending, a failing add_request reports a
\* full queue and leaves the pending map as it was, a succeeding one adds its
\* new id (so after one of ten is resolved the next add_request succeeds).
C2_QueueBound ==
    /\ [](Cardinality(DOMAIN pending) <= QueueLimit)
    /\ [][AddRequestStep =>
            /\ (last'.ret = "Ok") <=> (Cardinality(DOMAIN pending) < QueueLimit)
            /\ last'.ret # "Ok" => (last'.ret = "QueueFull" /\ pending' = pending)
            /\ last'.ret = "Ok" =>
                  /\ last'.id \notin DOMAIN pending
                  /\ DOMAIN pending' = DOMAIN pending \cup {last'.id}]_vars

\* ten were pending, one was resolved, and the eleventh add_request succeeded
C2_Witness ==
    /\ last = Called("add_request", QueueLimit + 1, "Ok")
    /\ Cardinality(DOMAIN pending) = QueueLimit

\* C3: a response with approved = TRUE comes only from a respond call that was
\* given approved = TRUE; what cancel, cleanup_expired, clear_for_window and
\* clear_all send is always approved = FALSE.
C3_OnlyRespondApproves ==
    \A id \in DOMAIN chan : \A i \in 1..Len(Slot(id)) :
        LET e == Slot(id)[i] IN
        /\ e.resp.approved => (e.by = "respond" /\ e.asked)
        /\ e.by = "respond" => e.resp.approved = e.asked
        /\ e.by \in {"cancel", "cleanup_expired", "clear_for_window", "clear_all"}
              => ~e.resp.approved

\* one caller was approved by respond, another was resolved by the sweep
C3_Witness ==
    /\ \E id \in DOMAIN chan :
          Slot(id) # <<>> /\ Slot(id)[1].resp.approved /\ Slot(id)[1].by = "respond"
    /\ \E id \in DOMAIN chan :
          Slot(id) # <<>> /\ Slot(id)[1].by = "cleanup_expired"

\* C4: the response on the channel that add_request returned for request r
\* carries r's id, and nothing is sent on the channel of a request that is
\* still pending, whatever resolves the others.
C4_RightCaller ==
    \A id \in DOMAIN chan :
        /\ \A i \in 1..Len(Slot(id)) : Slot(id)[i].resp.id = id
        /\ id \in DOMAIN pending =>
              /\ pending[id].request.id = id
              /\ Slot(id) = <<>>
              /\ chan[id].sends = 0

\* one request resolved while another one stays pending
C4_Witness ==
    \E a, b \in DOMAIN chan :
        /\ a # b
        /\ Slot(a) # <<>>
        /\ b \in DOMAIN pending

\* a step that is a call of respond or cancel
RespondOrCancelStep == last' # last /\ last'.op \in {"respond", "cancel"}

\* C5: respond or cancel on an id that is not pending (never added, or already
\* resolved by any path) returns not-found, sends nothing and leaves the
\* pending map as it was.
C5_NotFound ==
    [][(RespondOrCancelStep /\ last'.id \notin DOMAIN pending) =>
          /\ last'.ret = "NotFound"
          /\ pending' = pending
          /\ chan' = chan]_vars

\* cancel of a request that the expiry sweep had already resolved
C5_Witness ==
    /\ last = Called("cancel", 1, "NotFound")
    /\ 1 \in DOMAIN chan
    /\ Slot(1) # <<>>
    /\ Slot(1)[1].by = "cleanup_expired"

----------------------------------------------------------------------------
(* Properties of the request router *)

\* s is an initial part of t
IsPrefix(s, t) == Len(s) <= Len(t) /\ \A i \in 1..Len(s) : s[i] = t[i]

\* the admission checks, and what a call does once it is past them
AdmissionChecks == {"rate", "fresh", "replay", "auth"}
RanHandler(task) ==
    \/ task.approval # 0
    \/ task.adapter > 0
    \/ task.signed
    \/ task.pc \in {"enqueue", "await", "create", "sign", "mark"}
    \/ task.by \in {"handler", "timeout"}

\* C9: dapp_request runs rate limit, freshness, replay, session authorization
\* and dispatch in this order and stops at the first check that fails: the
\* layers a call has run are an initial part of that order (without the
\* session check for the methods that need none), a call rejected by a check
\* carries that check's code (4902, 4904, 4905, 4100), has run exactly the
\* checks before it and this one, and has run no handler; a handler runs only
\* after every check.
C9_FixedOrder ==
    \A t \in DOMAIN tasks :
        LET task == tasks[t]
            order == IF task.method \in NoAuthMethods
                     THEN <<"rate", "fresh", "replay", "dispatch">>
                     ELSE <<"rate", "fresh", "replay", "auth", "dispatch">>
        IN /\ IsPrefix(task.layers, order)
           /\ task.by = "rate" => (task.error = 4902 /\ task.layers = <<"rate">>)
           /\ task.by = "fresh" => (task.error = 4904 /\ task.layers = <<"rate", "fresh">>)
           /\ task.by = "replay" =>
                 (task.error = 4905 /\ task.layers = <<"rate", "fresh", "replay">>)
           /\ task.by = "auth" =>
                 (task.error = 4100 /\ task.layers = <<"rate", "fresh", "replay", "auth">>)
           /\ task.by \in AdmissionChecks => (task.pc = "done" /\ ~RanHandler(task))
           /\ RanHandler(task) => task.layers = order

\* a call rejected for its rate (4902) although its timestamp is too old and
\* its window has no session, and one rejected for its timestamp (4904)
\* although its window has no session
C9_Witness ==
    /\ \E t \in DOMAIN tasks :
          /\ tasks[t].by = "rate"
          /\ tasks[t].error = 4902
          /\ now - tasks[t].timestamp > MaxRequestAge
          /\ SessionManager_validate_session_for_window(
                 tasks[t].window_label, tasks[t].origin) # "Ok"
    /\ \E t \in DOMAIN tasks :
          /\ tasks[t].by = "fresh"
          /\ tasks[t].method \notin NoAuthMethods
          /\ SessionManager_validate_session_for_window(
                 tasks[t].window_label, tasks[t].origin) # "Ok"

\* the eth_sendTransaction calls of one window and origin whose rate check
\* ran in second s and which went on to enqueue an approval
Enqueued(window_label, origin, s) ==
    {t \in DOMAIN tasks :
        /\ tasks[t].method = "eth_sendTransaction"
        /\ tasks[t].window_label = window_label
        /\ tasks[t].origin = origin
        /\ tasks[t].layers # <<>>
        /\ tasks[t].rate_at = s
        /\ tasks[t].approval # 0}

\* C10: a call rejected by an admission check has enqueued no approval, has
\* made no chain-adapter call and has signed nothing, and every approval ever
\* enqueued belongs to a call that passed every check; of the
\* eth_sendTransaction calls one (window, origin) makes in one second at most
\* two enqueue an approval.
C10_RejectedDoesNothing ==
    /\ \A t \in DOMAIN tasks :
          tasks[t].by \in AdmissionChecks =>
              /\ tasks[t].approval = 0
              /\ tasks[t].adapter = 0
              /\ ~tasks[t].signed
    /\ \A id \in DOMAIN chan :
          \E t \in DOMAIN tasks :
              /\ tasks[t].approval = id
              /\ tasks[t].by \notin AdmissionChecks
              /\ tasks[t].layers[Len(tasks[t].layers)] = "dispatch"
    /\ \A t \in DOMAIN tasks :
          Cardinality(Enqueued(tasks[t].window_label, tasks[t].origin,
                               tasks[t].rate_at)) <= 2

\* three eth_sendTransaction calls in one second: two wait for their approval,
\* the third was rejected for its rate and enqueued nothing
C10_Witness ==
    \E a, b, c \in DOMAIN tasks :
        /\ a # b
        /\ {a, b} \subseteq Enqueued(tasks[c].window_label, tasks[c].origin,
                                     tasks[c].rate_at)
        /\ tasks[c].method = "eth_sendTransaction"
        /\ tasks[c].by = "rate"
        /\ tasks[c].approval = 0
        /\ Cardinality(DOMAIN chan) = 2

\* the step in which close_dapp finishes the teardown of window w
CloseCompletes(w) ==
    /\ w \in DOMAIN closing
    /\ closing[w] # "closed"
    /\ closing'[w] = "closed"

\* C6: when close_dapp has run remove_all_sessions_for_window,
\* clear_for_window and remove_window for window w, no origin has a session
\* of w, every approval the teardown found pending for w is out of the
\* pending map with a response of approved = FALSE, and w is not in the
\* window registry.
C6_TeardownClean ==
    [][\A w \in Windows :
          CloseCompletes(w) =>
              /\ \A o \in Origins : SessionKey(w, o) \notin DOMAIN sessions'
              /\ \A id \in DOMAIN chan' :
                    (chan'[id].slot # <<>> /\ chan'[id].slot[1].by = "clear_for_window")
                    => (id \notin DOMAIN pending' /\ ~chan'[id].slot[1].resp.approved)
              /\ w \notin DOMAIN windows']_vars

\* C7: every approval that enters the pending map leaves it again, and every
\* handler that waits for its approval stops waiting, even if the user never
\* answers, cancels or closes the window (stated for the approvals enqueued
\* early enough for the clock to run past their timeout).
C7_EventuallyResolved ==
    /\ \A id \in 1..MaxLiveTasks :
          (id \in DOMAIN pending /\ pending[id].created + ApprovalTimeout < MaxNow)
          ~> (id \notin DOMAIN pending)
    /\ \A t \in 1..MaxLiveTasks :
          (/\ t \in DOMAIN tasks
           /\ tasks[t].pc = "await"
           /\ tasks[t].enqueued + ApprovalTimeout < MaxNow)
          ~> (t \in DOMAIN tasks /\ tasks[t].pc # "await")

\* C8: a handler of eth_sendTransaction or personal_sign that waits for its
\* approval has been waiting for at most 300 seconds since it enqueued the
\* request, whether or not anybody resolves the request: past that time it
\* has returned to its caller.
C8_BoundedWait ==
    \A t \in DOMAIN tasks :
        (tasks[t].method \in {"eth_sendTransaction", "personal_sign"}
            /\ tasks[t].pc = "await")
        => now - tasks[t].enqueued <= 300

\* C11: whatever the transport a request came by (the dapp_request command,
\* the handle_dapp_request command, the loopback WebSocket listener), a
\* method handler has run for it only after the rate limit, the freshness
\* check and the replay check were run for it, and, for a method that needs
\* a session, only after the session of its (window, origin) was validated.
C11_SameChecks ==
    \A t \in DOMAIN tasks :
        LET task == tasks[t] IN
        RanHandler(task) =>
            /\ IsPrefix(<<"rate", "fresh", "replay">>, task.layers)
            /\ task.method \notin NoAuthMethods =>
                  Len(task.layers) > 3 /\ task.layers[4] = "auth"

\* the methods the claim exempts from the session check
C12_Allowlist ==
    {"eth_chainId", "net_version", "eth_blockNumber", "eth_requestAccounts",
     "eth_accounts"}

\* the step in which dapp_request reaches its session check for call t
SessionChecked(t) ==
    /\ t \in DOMAIN tasks
    /\ tasks[t].pc = "auth"
    /\ tasks'[t].pc # "auth"

\* C12: for a method outside the allowlist, dapp_request has run a handler
\* only after its session check, and the session check lets the call go on
\* exactly when validate_session_for_window succeeds for the call's window
\* and origin; when it fails the call returns code 4100 and has run no
\* handler. For a method of the allowlist the call goes on without a session.
C12_AuthBeforeHandler ==
    /\ [](\A t \in DOMAIN tasks :
            (tasks[t].method \notin C12_Allowlist /\ RanHandler(tasks[t]))
            => (Len(tasks[t].layers) >= 4 /\ tasks[t].layers[4] = "auth"
                  /\ tasks[t].by # "auth"))
    /\ [](\A t \in DOMAIN tasks :
            tasks[t].by = "auth" =>
                (tasks[t].error = 4100 /\ tasks[t].pc = "done" /\ ~RanHandler(tasks[t])))
    /\ [][\A t \in 1..MaxAuthTasks :
            SessionChecked(t) =>
                IF tasks[t].method \in C12_Allowlist
                THEN tasks'[t].pc = "dispatch"
                ELSE IF SessionManager_validate_session_for_window(
                            tasks[t].window_label, tasks[t].origin) = "Ok"
                THEN tasks'[t].pc = "activity"
                ELSE tasks'[t].by = "auth" /\ tasks'[t].error = 4100]_vars

\* a signing call and a chain-reading call rejected with 4100 for want of a
\* session, another that ran its handler after its session was validated,
\* and a call of the allowlist that ran its handler without a session
C12_Witness ==
    /\ \E t \in DOMAIN tasks :
          /\ tasks[t].method \in {"personal_sign", "eth_sendTransaction", "eth_getBalance"}
          /\ tasks[t].by = "auth"
          /\ tasks[t].error = 4100
    /\ \E t \in DOMAIN tasks :
          /\ tasks[t].method \notin C12_Allowlist
          /\ RanHandler(tasks[t])
          /\ Len(tasks[t].layers) >= 4
          /\ tasks[t].layers[4] = "auth"
    /\ \E t \in DOMAIN tasks :
          /\ tasks[t].method \in C12_Allowlist
          /\ RanHandler(tasks[t])
          /\ tasks[t].layers = <<"rate", "fresh", "replay", "dispatch">>
          /\ sessions = <<>>

\* the response the handler of call t took from its channel
Received(t) == chan[tasks[t].approval].slot[1]

\* the handler of call t has taken a response from the channel of its own
\* approval request
HasReceived(t) ==
    /\ tasks[t].approval \in DOMAIN chan
    /\ chan[tasks[t].approval].rx = "received"

\* calls on the chain adapter that handle_send_transaction makes before it
\* asks for approval (get_gas_price)
AdapterCallsBeforeApproval == 1

\* C13: a personal_sign or eth_sendTransaction handler has reached or made
\* its signing / sending calls only if it received, on the channel of its own
\* approval request, a response for that request with approved = TRUE and a
\* password in its data; a handler that received an approved response
\* without a password has returned an error and has made no such call.
C13_SignOnlyApproved ==
    \A t \in DOMAIN tasks :
        LET task == tasks[t] IN
        task.method \in SignMethods =>
            /\ (task.signed \/ task.pc = "sign"
                    \/ task.adapter > AdapterCallsBeforeApproval) =>
                  /\ HasReceived(t)
                  /\ Received(t).resp.id = task.approval
                  /\ Received(t).by = "respond"
                  /\ Received(t).resp.approved
                  /\ Received(t).resp.data = "password"
            /\ (HasReceived(t) /\ Received(t).resp.approved
                    /\ Received(t).resp.data = "None") =>
                  /\ task.pc = "done"
                  /\ task.by = "handler"
                  /\ task.error # 0
                  /\ ~task.signed
                  /\ task.adapter <= AdapterCallsBeforeApproval

\* one signing call that signed after an approval with a password, and one
\* that was approved without a password and returned an error unsigned
C13_Witness ==
    /\ \E t \in DOMAIN tasks :
          /\ tasks[t].method \in SignMethods
          /\ tasks[t].signed
          /\ Received(t).resp.approved
    /\ \E t \in DOMAIN tasks :
          /\ tasks[t].method \in SignMethods
          /\ HasReceived(t)
          /\ Received(t).resp.approved
          /\ Received(t).resp.data = "None"
          /\ tasks[t].error # 0
          /\ ~tasks[t].signed

\* C15: a session does not outlive the origin of its window: while the
\* registry's current origin of window w is o2, no session of w for another
\* origin passes validate_session_for_window, and no call identified as
\* (w, o1) with o1 # o2 gets through the session check of dapp_request.
C15_SessionEndsOnNavigation ==
    /\ [](\A w \in DOMAIN windows : \A o \in Origins :
            o # windows[w].current_origin =>
                SessionManager_validate_session_for_window(w, o) # "Ok")
    /\ [][\A t \in 1..MaxNavTasks :
            (/\ SessionChecked(t)
             /\ tasks[t].window_label \in DOMAIN windows
             /\ tasks[t].origin # windows[tasks[t].window_label].current_origin)
            => tasks'[t].by = "auth"]_vars

----------------------------------------------------------------------------
(* Properties of the session manager *)

\* the step is a call of method op of the session manager for key k
SessionCall(op, k) ==
    /\ now' = now
    /\ last'.op = op
    /\ last'.id = k

\* C14: a session belongs to its (window, origin): creating the session of
\* one key or removing it changes, for every other key (the same origin in
\* another window, another origin in the same window), neither what
\* get_session_by_window returns nor what validate_session_for_window
\* answers; so creating (w1, X) never makes (w2, X) valid, and removing
\* (w1, X) leaves the session of (w2, X) returned and valid. A session that
\* validates for a window was created for that window.
C14_WindowsIndependent ==
    /\ [](\A k \in SessionKeys :
            SessionManager_validate_session_for_window(k[1], k[2]) = "Ok" =>
                /\ k \in DOMAIN sessions
                /\ sessions[k].window_label = k[1]
                /\ sessions[k].origin = k[2])
    /\ [][\A k \in SessionKeys :
            (\/ SessionCall("create_session_for_window", k)
             \/ SessionCall("remove_session_by_window", k))
            => \A j \in SessionKeys \ {k} :
                  /\ SessionManager_validate_session_for_window(j[1], j[2])' =
                        SessionManager_validate_session_for_window(j[1], j[2])
                  /\ SessionManager_get_session_by_window(j[1], j[2])' =
                        SessionManager_get_session_by_window(j[1], j[2])]_vars

\* the session of (w1, oA) was just removed, that of (w2, oA) is still
\* returned and valid
C14_Witness ==
    /\ last.op = "remove_session_by_window"
    /\ last.id = <<"w1", "oA">>
    /\ SessionManager_get_session_by_window("w1", "oA") = {}
    /\ SessionManager_get_session_by_window("w2", "oA") # {}
    /\ SessionManager_validate_session_for_window("w2", "oA") = "Ok"
    /\ SessionManager_validate_session_for_window("w1", "oA") = "NotConnected"

\* C16: validate_session_for_window(w, o) answers Ok exactly when a record
\* is stored under the key (w, o), and NotConnected when there is none
\* (never created, removed, or only created for another window or another
\* origin); the call changes neither the sessions nor anything else.
C16_ValidateFailsClosed ==
    /\ [](\A k \in SessionKeys :
            /\ SessionManager_validate_session_for_window(k[1], k[2]) = "Ok"
                  <=> k \in DOMAIN sessions
            /\ k \notin DOMAIN sessions =>
                  SessionManager_validate_session_for_window(k[1], k[2]) = "NotConnected")
    /\ [][\A k \in SessionKeys :
            SessionCall("validate_session_for_window", k) =>
                /\ last'.ret = "Ok" <=> k \in DOMAIN sessions
                /\ sessions' = sessions
                /\ UNCHANGED <<pending, uuid, chan, windows, buckets, processed,
                               tasks, closing>>]_vars

\* (w1, oA) and (w1, oB) have sessions, (w2, oA) has none, and the
\* validation of (w2, oA) just failed
C16_Witness ==
    /\ last.op = "validate_session_for_window"
    /\ last.id = <<"w2", "oA">>
    /\ last.ret = "NotConnected"
    /\ <<"w1", "oA">> \in DOMAIN sessions
    /\ <<"w1", "oB">> \in DOMAIN sessions
    /\ <<"w2", "oA">> \notin DOMAIN sessions

\* C17: a call of update_activity_for_window on an existing session returns
\* Ok and leaves last_activity strictly greater than it was, however the
\* clock stands (several calls in one second, a clock that was set back),
\* and changes nothing else; on a missing session it returns NotConnected
\* and changes nothing.
C17_ActivityIncreases ==
    [][\A k \in SessionKeys :
          SessionCall("update_activity_for_window", k) =>
              IF k \in DOMAIN sessions
              THEN /\ last'.ret = "Ok"
                   /\ DOMAIN sessions' = DOMAIN sessions
                   /\ sessions'[k].last_activity > sessions[k].last_activity
                   /\ sessions' = [sessions EXCEPT ![k].last_activity =
                                                       sessions'[k].last_activity]
              ELSE /\ last'.ret = "NotConnected"
                   /\ sessions' = sessions]_vars

\* two calls within the second the session was created in: last_activity
\* is two seconds ahead of the clock
C17_Witness ==
    /\ last.op = "update_activity_for_window"
    /\ last.ret = "Ok"
    /\ last.id \in DOMAIN sessions
    /\ sessions[last.id].connected_at = now
    /\ sessions[last.id].last_activity = now + 2

----------------------------------------------------------------------------
(* Properties of the rate limiter *)

\* the burst size of the profile a method falls under
BurstOf(method) ==
    IF method \in SensitiveMethods THEN 2
    ELSE IF method \in ConnectionMethods THEN 10
    ELSE IF method \in ReadOnlyMethods THEN 50
    ELSE 20

\* C18: on a fresh bucket, while no time has passed since its creation, the
\* n-th call of check_limit succeeds exactly when n is at most the burst
\* size of the method's profile: 2 for sensitive, 10 for connection, 50 for
\* read-only and 20 for any other method; so exactly that many consecutive
\* calls succeed and the next one fails.
C18_BurstThenReject ==
    \A method \in RateMethods :
        (Format(RateOrigin, method) \in DOMAIN buckets /\ last.op = "check_limit") =>
            (last.ret = "Ok" <=> last.id <= BurstOf(method))

\* the 51st call for a read-only method, in the instant of the first, fails
C18_Witness ==
    /\ Format(RateOrigin, "eth_getBalance") \in DOMAIN buckets
    /\ last.op = "check_limit"
    /\ last.id = 51
    /\ last.ret = "RateLimitExceeded"

\* the bucket a call of check_limit finds: the stored one, or a new one
BucketFound(method) ==
    IF Format(RateOrigin, method) \in DOMAIN buckets
    THEN buckets[Format(RateOrigin, method)]
    ELSE MultiTierBucket_new(MethodRateLimits_get_config(method))

\* C19: a call of check_limit takes tokens from all tiers or from none: a
\* rejected call leaves every tier of the bucket with exactly the tokens
\* the refill gave it, and a successful call leaves every tier with exactly
\* one token less than that; it is rejected exactly when some tier holds
\* less than one token after the refill.
C19_AllOrNothing ==
    [][\A method \in RateMethods :
          (last'.id = last.id + 1 /\ Format(RateOrigin, method) \in DOMAIN buckets') =>
              LET r == MultiTierBucket_refill(BucketFound(method))
                  b == buckets'[Format(RateOrigin, method)]
              IN IF last'.ret = "Ok"
                 THEN /\ r.second_tokens >= TokenScale
                      /\ r.minute_tokens >= TokenScale
                      /\ r.hour_tokens >= TokenScale
                      /\ b.second_tokens = r.second_tokens - TokenScale
                      /\ b.minute_tokens = r.minute_tokens - TokenScale
                      /\ b.hour_tokens = r.hour_tokens - TokenScale
                 ELSE /\ \/ r.second_tokens < TokenScale
                         \/ r.minute_tokens < TokenScale
                         \/ r.hour_tokens < TokenScale
                      /\ b.second_tokens = r.second_tokens
                      /\ b.minute_tokens = r.minute_tokens
                      /\ b.hour_tokens = r.hour_tokens]_vars

\* a call rejected by the minute tier while the second tier held a token
C19_Witness ==
    \E key \in DOMAIN buckets :
        /\ last.op = "check_limit_later"
        /\ last.ret = "RateLimitExceeded"
        /\ buckets[key].second_last_refill = now
        /\ buckets[key].second_tokens >= TokenScale
        /\ buckets[key].minute_tokens < TokenScale

\* C20: in every reachable state every tier of every bucket holds at least
\* no token and at most its ceiling: the burst size for the second tier,
\* per_minute for the minute tier and per_hour for the hour tier.
C20_TokensWithinBounds ==
    \A key \in DOMAIN buckets :
        LET b == buckets[key] IN
        /\ 0 <= b.second_tokens /\ b.second_tokens <= TokenScale * b.config.burst_size
        /\ 0 <= b.minute_tokens /\ b.minute_tokens <= TokenScale * b.config.per_minute
        /\ 0 <= b.hour_tokens /\ b.hour_tokens <= TokenScale * b.config.per_hour

\* the second call for a sensitive method, made when the refill since the
\* first would have passed the ceiling of the second and the minute tier
C20_Witness ==
    /\ Format(RateOrigin, "eth_sendTransaction") \in DOMAIN buckets
    /\ last.op = "check_limit_later"
    /\ last.id = 2
    /\ now = MaxRateNow
    /\ LET b == buckets[Format(RateOrigin, "eth_sendTransaction")] IN
       /\ b.second_last_refill = now
       /\ b.second_tokens = TokenScale * (b.config.burst_size - 1)
       /\ b.minute_tokens = TokenScale * (b.config.per_minute - 1)

\* C21: a call of check_limit for one key leaves the bucket of every other
\* key as it was, and the first call for a key finds a fresh bucket whatever
\* was done under other keys; so while no time has passed the n-th call for
\* a key succeeds exactly when n is at most the burst size of the method,
\* however many calls the other key has had.
C21_KeysIndependent ==
    /\ [](last.op = "check_limit" =>
              (last.ret.result = "Ok" <=>
                   last.ret.calls[last.ret.key] <= BurstOf(last.ret.method)))
    /\ [][last'.id = last.id + 1 =>
              \A k \in RateKeys \ {last'.ret.key} :
                  LET other == Format(k, last'.ret.method) IN
                  /\ other \in DOMAIN buckets' <=> other \in DOMAIN buckets
                  /\ other \in DOMAIN buckets => buckets'[other] = buckets[other]]_vars

\* the first key was exhausted, and then the other key had its two
\* successes and its first rejection, all in one instant
C21_Witness ==
    /\ last.op = "check_limit"
    /\ last.ret.method = "eth_sendTransaction"
    /\ last.ret.result = "RateLimitExceeded"
    /\ last.ret.calls[last.ret.key] = 3
    /\ \E k \in RateKeys \ {last.ret.key} : last.ret.calls[k] >= 3

\* the tokens a tier holding `tokens` has after `elapsed` seconds at `rate`
\* tokens in `per` seconds, under the ceiling `ceiling` (in token units)
Regained(tokens, elapsed, rate, per, ceiling) ==
    IF tokens + (elapsed * TokenScale * rate) \div per <= TokenScale * ceiling
    THEN tokens + (elapsed * TokenScale * rate) \div per
    ELSE TokenScale * ceiling

\* C22: after a burst on a fresh bucket has used up the second tier and t
\* seconds have passed, the n-th of the calls that follow at once succeeds
\* exactly when n is at most the whole tokens the second tier regained,
\* t times per_second and at most burst_size (so the first succeeds once
\* 1/per_second seconds have passed); and after k successes every tier
\* holds what it held after the burst, plus t times its rate, at most its
\* ceiling, minus k.
C22_RefillProportional ==
    last.op = "after" =>
        LET c == MethodRateLimits_get_config(last.ret.method)
            b == buckets[Format(RateOrigin, last.ret.method)]
            t == last.ret.elapsed
            k == last.ret.ok
        IN /\ last.ret.result = "Ok" <=>
                  last.id <= Regained(0, t, c.per_second, 1, c.burst_size) \div TokenScale
           /\ b.second_tokens =
                  Regained(0, t, c.per_second, 1, c.burst_size) - TokenScale * k
           /\ b.minute_tokens =
                  Regained(TokenScale * (c.per_minute - c.burst_size), t, c.per_minute,
                           60, c.per_minute) - TokenScale * k
           /\ b.hour_tokens =
                  Regained(TokenScale * (c.per_hour - c.burst_size), t, c.per_hour,
                           3600, c.per_hour) - TokenScale * k

\* a sensitive method one second after its burst: the first call succeeded
\* and the second was rejected
C22_Witness ==
    /\ last.op = "after"
    /\ last.ret.method = "eth_sendTransaction"
    /\ last.ret.elapsed = 1
    /\ last.id = 2
    /\ last.ret.ok = 1
    /\ last.ret.result = "RateLimitExceeded"

----------------------------------------------------------------------------
(* Properties of the replay protection *)

\* C23 as stated: a dapp_request call made with an id that was in the
\* processed set returns error 4905.
C23_DuplicateGets4905 ==
    \A t \in DOMAIN tasks :
        (tasks[t].seen /\ tasks[t].pc = "done") => tasks[t].error = 4905

\* C23, amended: a dapp_request call made with an id that was in the
\* processed set, the id still being there, runs no handler and is rejected
\* by the replay check with error 4905, unless the rate limit (4902) or the
\* timestamp check (4904) has rejected it before.
C23_DuplicateRejected ==
    \A t \in DOMAIN tasks :
        (tasks[t].seen /\ tasks[t].id \in processed) =>
            /\ ~RanHandler(tasks[t])
            /\ tasks[t].pc \in {"rate", "fresh", "replay", "done"}
            /\ tasks[t].pc = "done" =>
                   \/ tasks[t].by = "rate" /\ tasks[t].error = 4902
                   \/ tasks[t].by = "fresh" /\ tasks[t].error = 4904
                   \/ tasks[t].by = "replay" /\ tasks[t].error = 4905

\* an id used a second time was rejected by the replay check, and a third
\* time by the rate limit
C23_Witness ==
    \E t, u \in DOMAIN tasks :
        /\ tasks[t].seen /\ tasks[t].by = "replay" /\ tasks[t].error = 4905
        /\ tasks[u].seen /\ tasks[u].by = "rate" /\ tasks[u].id = tasks[t].id

\* the step in which call t returns
Returns(t) ==
    /\ t \in DOMAIN tasks
    /\ tasks[t].pc # "done"
    /\ tasks'[t].pc = "done"

\* C24 as stated: a dapp_request call returns error 4904 exactly when the
\* clock is more than 300 seconds past the timestamp of its request.
C24_ExpiredIff ==
    [][\A t \in 1..MaxFreshTasks :
          Returns(t) =>
              (tasks'[t].error = 4904 <=> now - tasks[t].timestamp > MaxRequestAge)]_vars

\* C24, amended: a dapp_request call that the rate limit let pass is
\* rejected with error 4904 exactly when the clock is more than 300 seconds
\* past the timestamp of its request, and goes on to the replay check
\* otherwise; a request exactly 300 seconds old or with a timestamp later
\* than the clock is not rejected as expired. No other call returns 4904.
C24_ExpiredAfterRateLimit ==
    /\ [](\A t \in DOMAIN tasks : tasks[t].error = 4904 <=> tasks[t].by = "fresh")
    /\ [][\A t \in 1..MaxFreshTasks :
            (t \in DOMAIN tasks /\ tasks[t].pc = "fresh" /\ tasks'[t].pc # "fresh") =>
                IF now - tasks[t].timestamp > MaxRequestAge
                THEN tasks'[t].pc = "done" /\ tasks'[t].error = 4904
                ELSE tasks'[t].pc = "replay" /\ tasks'[t].error = 0]_vars

\* a request exactly 300 seconds old and one with a timestamp later than the
\* clock passed the timestamp check, and one 301 seconds old was rejected
C24_Witness ==
    \E a, b, c \in DOMAIN tasks :
        /\ now - tasks[a].timestamp = MaxRequestAge
        /\ Len(tasks[a].layers) >= 3
        /\ tasks[b].timestamp > now
        /\ Len(tasks[b].layers) >= 3
        /\ tasks[c].by = "fresh"
        /\ now - tasks[c].timestamp = MaxRequestAge + 1

\* C26: after mark_processed returns the set holds at most 1000 ids, the id
\* just marked among them, and the ids missing from it are the oldest: it
\* holds exactly the ids of the latest 1000 calls.
C26_OldestEvicted ==
    last.op = "mark_processed" =>
        /\ Cardinality(processed) <= ProcessedCap
        /\ ProcessedRequests_is_processed(last.id)
        /\ processed = {id \in 1..last.id : id > last.id - ProcessedCap}

\* the calls for the session's window and origin that returned a result
Succeeded(k) ==
    {t \in DOMAIN tasks :
        /\ SessionKey(tasks[t].window_label, tasks[t].origin) = k
        /\ tasks[t].pc = "done"
        /\ tasks[t].error = 0}

\* C25: the id of a dapp_request call that returned a result is in the
\* processed set, and the id of a call that returned an error is not; and
\* the last_activity of a session has advanced for every call that returned
\* a result since the session was created (the calls follow one another,
\* all after the session was created, so it has advanced at least as many
\* times as there are such calls).
C25_SuccessMarksAndTouches ==
    /\ \A t \in DOMAIN tasks :
          tasks[t].pc = "done" => (tasks[t].id \in processed <=> tasks[t].error = 0)
    /\ \A k \in DOMAIN sessions :
          sessions[k].last_activity - sessions[k].connected_at >= Cardinality(Succeeded(k))

----------------------------------------------------------------------------
(* Properties of the account handlers *)

\* the step in which handle_request routes call t to its handler and the
\* handler runs up to its return or its first call on the approval queue
Dispatches(t) ==
    /\ t \in DOMAIN tasks
    /\ tasks[t].pc = "dispatch"
    /\ tasks'[t].pc # "dispatch"

\* C27: when the handler of eth_requestAccounts finds a session for the
\* call's window and origin, it returns at once with exactly the accounts of
\* that session: it adds nothing to the approval queue and does not wait,
\* and these accounts are the result the call returns.
C27_ConnectedReturnsAtOnce ==
    [][\A t \in 1..MaxAccountTasks :
          /\ (Dispatches(t) /\ tasks[t].method = "eth_requestAccounts"
                 /\ <<tasks[t].window_label, tasks[t].origin>> \in DOMAIN sessions) =>
                 /\ tasks'[t].pc = "mark"
                 /\ tasks'[t].result =
                        sessions[<<tasks[t].window_label, tasks[t].origin>>].accounts
                 /\ tasks'[t].approval = 0
                 /\ pending' = pending /\ chan' = chan /\ uuid' = uuid
          /\ (t \in DOMAIN tasks /\ tasks[t].pc = "mark") =>
                 /\ tasks'[t].pc \in {"mark", "done"}
                 /\ tasks'[t].result = tasks[t].result
                 /\ tasks'[t].error = 0]_vars

\* a window connected under an account that is not the wallet's active one
\* got that account from eth_requestAccounts, and nothing was ever enqueued
C27_Witness ==
    \E t \in DOMAIN tasks :
        /\ tasks[t].method = "eth_requestAccounts"
        /\ tasks[t].pc = "done"
        /\ tasks[t].error = 0
        /\ tasks[t].result = {"a2"}
        /\ uuid = 0

\* C29: the handler of eth_accounts returns without an error and without a
\* call on the approval queue: its result is the accounts of the session
\* stored for exactly the call's window and origin, and no account when
\* there is no such session, whatever sessions other windows hold.
C29_AccountsOfOwnSession ==
    /\ [](\A t \in DOMAIN tasks :
            tasks[t].method = "eth_accounts" =>
                (tasks[t].approval = 0 /\ tasks[t].wallet_error = "none"))
    /\ [][\A t \in 1..MaxAccountTasks :
            (Dispatches(t) /\ tasks[t].method = "eth_accounts") =>
                /\ tasks'[t].pc = "mark"
                /\ tasks'[t].result =
                       IF <<tasks[t].window_label, tasks[t].origin>> \in DOMAIN sessions
                       THEN sessions[<<tasks[t].window_label, tasks[t].origin>>].accounts
                       ELSE {}
                /\ pending' = pending /\ chan' = chan /\ uuid' = uuid]_vars

\* eth_accounts returned no account to a window without a session while
\* the other window had one, and returned a session's account to its window
C29_Witness ==
    \E t, u \in DOMAIN tasks :
        /\ tasks[t].method = "eth_accounts"
        /\ tasks[t].pc = "done"
        /\ tasks[t].error = 0
        /\ tasks[t].result = {}
        /\ <<tasks[t].window_label, tasks[t].origin>> \notin DOMAIN sessions
        /\ \E k \in DOMAIN sessions : k[2] = tasks[t].origin
        /\ tasks[u].method = "eth_accounts"
        /\ tasks[u].pc = "done"
        /\ tasks[u].result = {"a2"}

----------------------------------------------------------------------------
(* Properties of the connection request *)

\* the step in which the handler of call t calls add_request
Enqueues(t) ==
    /\ t \in DOMAIN tasks
    /\ tasks[t].pc = "enqueue"
    /\ tasks'[t].pc # "enqueue"

\* the step in which the handler of call t gets the response it waited for
Receives(t) ==
    /\ t \in DOMAIN tasks
    /\ tasks[t].pc = "await"
    /\ tasks'[t].pc # "await"

\* the step puts one Connection request of the call's window and origin in
\* the queue, changes no other request, and leaves call t waiting for it
AddsConnection(t) ==
    LET id == tasks'[t].approval IN
    /\ tasks'[t].pc = "await"
    /\ id \notin DOMAIN pending
    /\ DOMAIN pending' = DOMAIN pending \cup {id}
    /\ \A j \in DOMAIN pending : pending'[j] = pending[j]
    /\ pending'[id].request.window_label = tasks[t].window_label
    /\ pending'[id].request.request_type =
           [type |-> "Connection", origin |-> tasks[t].origin]
    /\ sessions' = sessions

\* the operations of the queue that resolve a request without the user's
\* answer: cancel, the expiry sweep, clear_all and the window's close
RejectingResolutions == {"cancel", "cleanup_expired", "clear_all", "clear_for_window"}

\* what call t does once it found no session, apart from its add_request:
\* it goes on to add_request; the response it receives is a rejection when
\* it comes from a rejecting resolution; on a rejection the call returns
\* UserRejected and leaves the sessions alone, otherwise it goes on to create
\* the session; and a call changes the sessions only in that last step,
\* after a response with approved = true
ConnectsOnlyApproved(t) ==
    /\ (Dispatches(t) /\ <<tasks[t].window_label, tasks[t].origin>> \notin DOMAIN sessions) =>
           (tasks'[t].pc = "enqueue" /\ sessions' = sessions /\ pending' = pending)
    /\ Receives(t) =>
           LET sent == chan'[tasks[t].approval].slot[1] IN
           /\ sent.by \in RejectingResolutions => ~sent.resp.approved
           /\ sent.by \notin RejectingResolutions => sent.by = "respond"
           /\ IF sent.resp.approved
              THEN tasks'[t].pc = "create" /\ sessions' = sessions
              ELSE /\ tasks'[t].pc = "done"
                   /\ tasks'[t].wallet_error = "UserRejected"
                   /\ sessions' = sessions
    /\ (t \in DOMAIN tasks /\ tasks'[t] # tasks[t] /\ sessions' # sessions) =>
           /\ tasks[t].pc = "create"
           /\ chan[tasks[t].approval].slot[1].resp.approved
           /\ chan[tasks[t].approval].slot[1].by = "respond"
           /\ <<tasks[t].window_label, tasks[t].origin>> \in DOMAIN sessions'

\* C28 as stated: a call of eth_requestAccounts that finds no session for
\* its window and origin adds one Connection request for its window and
\* waits; it creates the session only after that request was resolved with
\* approved = true, and on every rejecting resolution it returns
\* UserRejected and creates no session.
C28_AsksThenConnects ==
    [][\A t \in 1..MaxConnectTasks :
          /\ ConnectsOnlyApproved(t)
          /\ Enqueues(t) => AddsConnection(t)]_vars

\* C28, amended: as stated while fewer than 10 requests are pending; with 10
\* requests pending the call returns the error of add_request, adds no
\* request and creates no session.
C28_AsksUnlessFull ==
    [][\A t \in 1..MaxConnectTasks :
          /\ ConnectsOnlyApproved(t)
          /\ Enqueues(t) =>
                IF QueueFull(pending)
                THEN /\ tasks'[t].pc = "done"
                     /\ tasks'[t].wallet_error = "QueueFull"
                     /\ tasks'[t].approval = 0
                     /\ pending' = pending
                     /\ sessions' = sessions
                ELSE AddsConnection(t)]_vars

\* one call was turned down because the queue was cleared and created no
\* session, the next one was approved and created the session of its window
C28_Witness ==
    \E t, u \in DOMAIN tasks :
        /\ tasks[t].pc = "done"
        /\ tasks[t].wallet_error = "UserRejected"
        /\ chan[tasks[t].approval].slot[1].by = "clear_all"
        /\ tasks[u].pc = "done"
        /\ tasks[u].error = 0
        /\ tasks[u].approval # 0
        /\ chan[tasks[u].approval].slot[1].resp.approved
        /\ tasks[u].result = sessions[<<tasks[u].window_label, tasks[u].origin>>].accounts

----------------------------------------------------------------------------
(* Properties of the locks *)

\* the positions of a call between the start of dapp_request and the
\* handler's wait for the response
AdmissionPositions == {"rate", "fresh", "replay", "auth", "dispatch", "enqueue"}

\* a step of call t in the accounts specification
AccountsStep(t) ==
    \/ AdmissionStep(t)
    \/ handler_receive(t)
    \/ handler_create_session(t)
    \/ dapp_request_mark_processed(t)

----------------------------------------------------------------------------
(* Properties of the window registry *)

\* the latest step was a call of `op` on the registry
RegistryStep(op) == last'.id = last.id + 1 /\ last'.op = op

\* C31: the registry holds one record per label, filed under its own label;
\* register_window on a registered label fails and changes nothing, on a
\* new label it adds that label's record alone; update_origin on an
\* unregistered label fails and creates no record, and on a registered one
\* it sets current_origin and last_navigation of that record and leaves its
\* label, its created_at and every other record as they were.
C31_OneRecordPerLabel ==
    /\ [](\A w \in DOMAIN windows : windows[w].window_label = w)
    /\ [][/\ RegistryStep("register_window") =>
               LET w == last'.ret.window_label IN
               IF w \in DOMAIN windows
               THEN last'.ret.result = "Err" /\ windows' = windows
               ELSE /\ last'.ret.result = "Ok"
                    /\ DOMAIN windows' = DOMAIN windows \cup {w}
                    /\ windows'[w].current_origin = last'.ret.origin
                    /\ \A v \in DOMAIN windows : windows'[v] = windows[v]
          /\ RegistryStep("update_origin") =>
               LET w == last'.ret.window_label IN
               IF w \notin DOMAIN windows
               THEN last'.ret.result = "Err" /\ windows' = windows
               ELSE /\ last'.ret.result = "Ok"
                    /\ DOMAIN windows' = DOMAIN windows
                    /\ windows'[w].window_label = windows[w].window_label
                    /\ windows'[w].created_at = windows[w].created_at
                    /\ windows'[w].current_origin = last'.ret.origin
                    /\ windows'[w].last_navigation = now
                    /\ \A v \in DOMAIN windows \ {w} : windows'[v] = windows[v]]_vars

\* a second registration of a label, with another origin and at a later
\* time, has just failed, and the record navigated since it was created
C31_Witness ==
    /\ last.op = "register_window"
    /\ last.ret.result = "Err"
    /\ last.ret.window_label \in DOMAIN windows
    /\ windows[last.ret.window_label].current_origin # last.ret.origin
    /\ windows[last.ret.window_label].created_at < windows[last.ret.window_label].last_navigation
    /\ windows[last.ret.window_label].last_navigation < now

----------------------------------------------------------------------------
(* Properties of the bucket keys *)

\* C32: two check_limit calls share a bucket only when they have the same
\* key and the same method: every pair that was called has a bucket with the
\* profile of its own method, from which its own calls alone have taken
\* tokens, and its calls were let through as long as that profile's burst
\* was not used up, whatever calls the other pairs had, also when the key
\* or the method name contains ':'.
C32_PairsIndependent ==
    \A key \in PairKeys, method \in PairMethods :
        LET calls == PairCalls[<<key, method>>]
            config == MethodRateLimits_get_config(method)
        IN calls > 0 =>
              /\ Format(key, method) \in DOMAIN buckets
              /\ buckets[Format(key, method)].config = config
              /\ buckets[Format(key, method)].second_tokens =
                     TokenScale * (config.burst_size - Min(calls, config.burst_size))
              /\ (last.ret.key = key /\ last.ret.method = method) =>
                     (last.ret.result = "Ok" <=> calls <= config.burst_size)

----------------------------------------------------------------------------
(* Properties of the window's teardown *)

\* the pending requests of the window
RequestsOf(w) == {id \in DOMAIN pending : pending[id].request.window_label = w}

\* C33: the teardown of a window touches that window's entries alone:
\* remove_all_sessions_for_window(w) removes the sessions whose key has
\* window w and leaves every other session as it was; clear_for_window(w)
\* removes the pending requests of window w and sends each of them the
\* response "Window closed" with approved = false, and leaves every other
\* request pending, unchanged, with nothing sent on its channel.
C33_TeardownOfOneWindow ==
    /\ [](\A id \in DOMAIN pending : chan[id].slot = <<>>)
    /\ [][\A w \in DOMAIN closing :
            /\ (closing[w] = "none" /\ closing'[w] = "sessions") =>
                   /\ DOMAIN sessions' = {k \in DOMAIN sessions : k[1] # w}
                   /\ \A k \in DOMAIN sessions' : sessions'[k] = sessions[k]
            /\ (closing[w] = "sessions" /\ closing'[w] = "approvals") =>
                   /\ DOMAIN pending' = DOMAIN pending \ RequestsOf(w)
                   /\ \A id \in DOMAIN pending' :
                          pending'[id] = pending[id] /\ chan'[id] = chan[id]
                   /\ \A id \in RequestsOf(w) :
                          /\ Len(chan'[id].slot) = 1
                          /\ chan'[id].slot[1].resp = ApprovalResponse(id, FALSE, "Window closed")]_vars

\* the first window was torn down while it had a session and a pending
\* request: both are gone, the request got its response, and the session
\* and the pending request of the second window are still there
C33_Witness ==
    /\ "w1" \in DOMAIN closing
    /\ closing["w1"] = "approvals"
    /\ \E id \in DOMAIN chan \ DOMAIN pending : chan[id].slot # <<>>
    /\ \E id \in DOMAIN pending : pending[id].request.window_label = "w2"
    /\ \E k \in DOMAIN sessions : k[1] = "w2"
    /\ \A k \in DOMAIN sessions : k[1] # "w1"

----------------------------------------------------------------------------
(* Properties of the expiry sweep *)

\* the step is a call of cleanup_expired: the queue's latest call is one, the
\* clock stands, and no receiver was taken or dropped
SweepStep ==
    /\ last'.op = "cleanup_expired"
    /\ now' = now
    /\ \A id \in DOMAIN chan : chan'[id].rx = chan[id].rx

\* C34: cleanup_expired removes the pending requests that are older than
\* their timeout of 300 s, and those alone; it sends each of them the
\* response "Request timeout" with approved = false, which reaches the
\* handler that waits for it; a request that is 300 s old or younger stays
\* pending, unchanged, and nothing is sent on its channel.
C34_SweepsExpiredOnly ==
    [][SweepStep =>
          LET old == {id \in DOMAIN pending :
                         now - pending[id].created > ApprovalTimeout}
          IN /\ DOMAIN pending' = DOMAIN pending \ old
             /\ \A id \in DOMAIN pending' :
                    pending'[id] = pending[id] /\ chan'[id] = chan[id]
             /\ \A id \in old :
                    /\ chan'[id].sends = chan[id].sends + 1
                    /\ chan[id].rx = "waiting" =>
                           /\ Len(chan'[id].slot) = 1
                           /\ chan'[id].slot[1].resp =
                                  ApprovalResponse(id, FALSE, "Request timeout")]_vars

\* the sweep has just removed a request that was 301 s old and sent it the
\* timeout, and has left pending a request that was made later
C34_Witness ==
    /\ last.op = "cleanup_expired"
    /\ \E id \in DOMAIN chan \ DOMAIN pending :
          /\ chan[id].slot # <<>>
          /\ chan[id].slot[1].by = "cleanup_expired"
    /\ \E id \in DOMAIN pending :
          /\ pending[id].created = ApprovalTimeout
          /\ now = ApprovalTimeout + 1
          /\ chan[id].slot = <<>>

----------------------------------------------------------------------------
(* Properties of the sessions of a closed window *)

\* C35: once close_dapp has completed for a window, the session map holds
\* no session of that window, at that time and at any later time, whatever
\* the handlers of eth_requestAccounts calls of that window were doing
\* while it was closed.
C35_NoSessionAfterClose ==
    \A w \in DOMAIN closing :
        closing[w] = "closed" => \A k \in DOMAIN sessions : k[1] # w

----------------------------------------------------------------------------
(* Properties of calls that carry one request id *)

\* C36: of the dapp_request calls that carry the same request id and are in
\* progress together, at most one reaches a method handler: while a call
\* that reached its handler has not returned, no other call with its id has
\* reached a handler.
C36_OneHandlerPerId ==
    \A t, u \in DOMAIN tasks :
        (t # u /\ tasks[t].id = tasks[u].id
           /\ RanHandler(tasks[t]) /\ tasks[t].pc # "done") =>
            ~RanHandler(tasks[u])

----------------------------------------------------------------------------
(* Properties of a request whose handler stopped waiting *)

\* C37: every pending request has a handler that still waits on its
\* channel: when the handler of eth_sendTransaction has stopped waiting
\* because its timeout fired, its request is not pending any more, and
\* respond returns Ok only for a request whose handler gets the response.
C37_PendingHasWaiter ==
    /\ \A id \in DOMAIN pending : chan[id].rx = "waiting"
    /\ \A t \in DOMAIN tasks :
          (tasks[t].by = "timeout" /\ tasks[t].pc = "done") =>
              tasks[t].approval \notin DOMAIN pending
    /\ (last.op = "respond" /\ last.ret = "Ok") => chan[last.id].rx # "dropped"

----------------------------------------------------------------------------
(* Properties of the two locks of the network state *)

\* C38: switch_network and current_adapter never deadlock: in no state does
\* one call hold the evm_adapters lock and wait for the active_network lock
\* while another holds active_network and waits for evm_adapters, so a
\* request that needs the current adapter always gets to proceed.
C38_NoLockCycle ==
    \A t, u \in DOMAIN tasks :
        ~ /\ "evm_adapters" \in tasks[t].held
          /\ tasks[t].pc = "switch_active_network"
          /\ "active_network" \in tasks[u].held
          /\ tasks[u].pc = "current_evm_adapters"

----------------------------------------------------------------------------
(* Properties of the accounts a session grants *)

\* the step in which call t calls the signing capability: sign_message for
\* personal_sign, get_signer and send_transaction for eth_sendTransaction
Signs(t) ==
    /\ t \in DOMAIN tasks
    /\ tasks[t].pc = "sign"
    /\ tasks'[t].signed

\* the session of the call's window and origin exists and its accounts
\* hold the address the call names
Granted(task) ==
    \E s \in SessionManager_get_session_by_window(task.window_label, task.origin) :
        task.address \in s.accounts

\* C39: a personal_sign call signs only if, at the moment it calls
\* sign_message, a session of its window and origin exists and holds the
\* signing address: after disconnect_dapp has removed the session while the
\* approval was pending, a later approval leads to no signature.
C39_SignsWithSession ==
    [][\A t \in 1..MaxGrantTasks :
          (Signs(t) /\ tasks[t].method = "personal_sign") => Granted(tasks[t])]_vars

\* C40: an eth_sendTransaction call adds its Transaction request to the
\* approval queue, and later signs, only when the from address is one of
\* the accounts of the session of its window and origin, as personal_sign
\* does for its address.
C40_SendsGrantedOnly ==
    [][\A t \in 1..MaxGrantTasks :
          (/\ t \in DOMAIN tasks
           /\ tasks[t].method = "eth_sendTransaction"
           /\ (Enqueues(t) /\ tasks'[t].pc = "await") \/ Signs(t))
          => Granted(tasks[t])]_vars

====
